---- MODULE Spec2Model ----
(***************************************************************************)
(* Model of the webhook delivery pipeline of darshikasaxena5/webhook_service *)
(* (src/app): the ingestion endpoint, the Celery task deliver_webhook with   *)
(* its autoretry configuration, the signature verifier, the subscription    *)
(* cache, the subscription update and delete endpoints and the three tables *)
(* of the store.                                                            *)
(*                                                                         *)
(* Every action is one interaction of a handler with shared state (one      *)
(* store call, one cache call, the HTTP request, one queue call), in the    *)
(* order of the source.  Store calls succeed except in SpecWriteFails and   *)
(* SpecReadFails; the cache server answers except in SpecCacheDown; the HTTP *)
(* target is free to answer anything.  The API serves one request at a      *)
(* time; the workers run concurrently with it.                              *)
(***************************************************************************)
EXTENDS Integers, Sequences, FiniteSets, Bags

\* ---------------------------------------------------------------- bounds
\* Deliveries that ingest may create.
MaxDeliveries == 1
\* Times the broker may hand out again a message a worker already holds.
MaxRedeliveries == 1
\* Last instant of the clock (in hours).
MaxTime == 2
\* Highest retry counter the retry delay is computed for.
MaxBackoffRetries == 7

\* ------------------------------------------------------ program constants
\* delivery.py:17  MAX_RETRIES = int(os.environ.get("WEBHOOK_MAX_RETRIES", 5)).
\* The value is read from the environment; the model runs the service with
\* WEBHOOK_MAX_RETRIES=2 (three attempts in all).
MAX_RETRIES == 2
\* cleanup.py:11  LOG_RETENTION_HOURS = int(os.environ.get("LOG_RETENTION_HOURS",
\* 72)), also read from the environment; the model runs with 1 hour.
LOG_RETENTION_HOURS == 1
\* delivery.py:21, 23
INITIAL_RETRY_DELAY_SECONDS == 10
MAX_RETRY_BACKOFF_SECONDS == 900

Workers == {"w1", "w2"}
SubIds == {"s1"}

NoTime == -1
NoCode == 0
NoDelivery == 0
\* No response yet (the handler is still running, or no request was served).
NoResponse == 0

\* subscriptions.secret_key (models/subscription.py:8): null, or a string; the
\* create endpoint stores an empty string as it is given.
NoSecret == "none"
Secrets == {NoSecret, "", "k1"}
\* subscriptions.target_url values.
Urls == {"u1", "u2"}

NoSub == [id |-> "none", target_url |-> "none", secret_key |-> NoSecret]

\* A value under a key subscription:<id> that set_subscription_in_cache did
\* not write: text that is not JSON, and JSON that is not a Subscription.
InvalidJson == [id |-> "invalid_json", target_url |-> "none",
                secret_key |-> NoSecret]
InvalidShape == [id |-> "invalid_shape", target_url |-> "none",
                 secret_key |-> NoSecret]
\* An exception left the call in place of a return value.
Raised == [id |-> "raised", target_url |-> "none", secret_key |-> NoSecret]

\* Request bodies of ingest, by what json.loads makes of them
\* (ingestion.py:63-78): no bytes, a JSON object, a JSON array, not JSON.
Bodies == {"empty", "object", "array", "invalid"}

\* security.py:37-38  hex(HMAC-SHA256(secret, body)): a digest is determined by
\* the key and the bytes it was computed over, and is ASCII text.
HmacHex(secret, request_body) ==
    [key |-> secret, body |-> request_body, ascii |-> TRUE]

\* Header text after "=" that holds a character outside ASCII.
NonAsciiDigest == [key |-> "none", body |-> "none", ascii |-> FALSE]
NoDigest == [key |-> "none", body |-> "none", ascii |-> TRUE]

\* ingestion.py:54  request.headers.get(SIGNATURE_HEADER): None (an empty value
\* is treated alike by security.py:21), a value without "=", or
\* <method>=<digest>.
NoHeader == [form |-> "absent", method |-> "none", digest |-> NoDigest]
PlainHeader == [form |-> "noeq", method |-> "none", digest |-> NoDigest]
SignedHeader(method, key, request_body) ==
    [form |-> "pair", method |-> method, digest |-> HmacHex(key, request_body)]

\* The signature headers a caller may send along with a given body.
HeadersFor(request_body) ==
    {NoHeader, PlainHeader,
     SignedHeader("sha256", "k1", request_body),
     SignedHeader("SHA256", "k1", request_body),
     SignedHeader("sha1", "k1", request_body),
     SignedHeader("sha256", "k2", request_body),
     [form |-> "pair", method |-> "sha256", digest |-> NonAsciiDigest]}

\* Status values of webhook_deliveries.status (models/webhook.py:16).
Statuses == {"pending", "processing", "failed_attempt", "success", "failed"}

\* What the HTTP attempt of deliver_webhook can end in (delivery.py:94-134):
\* a 2xx response, a non-2xx response (HTTPStatusError from raise_for_status),
\* an httpx.RequestError (httpx.TimeoutException is one of its subclasses),
\* any other exception.
Responses == {"2xx", "non2xx", "request_error", "unexpected"}

DeliveryIds == 1..MaxDeliveries
Messages == [delivery_id : DeliveryIds, retries : 0..(MAX_RETRIES + 1)]

VARIABLES
    subscriptions,  \* table subscriptions: SubIds -> row or NoSub
    cache,          \* redis keys subscription:<id>: SubIds -> row or NoSub
    deliveries,     \* table webhook_deliveries: sequence of rows, id = index
    attempts,       \* table delivery_attempts: delivery_id -> bag of rows
    queue,          \* broker: message -> number of copies waiting
    worker,         \* per worker process: the running deliver_webhook call
    api,            \* the request an API process is serving
    now,            \* the clock
    sent,           \* history: HTTP requests sent per delivery
    procWrites,     \* history: writes of status processing per delivery
    redelivered,    \* history: broker redeliveries so far
    removed,        \* history: attempt rows the sweeper deleted, per delivery
    answered,       \* history: response to the ingest request of a delivery
    redis_up,       \* the redis server of the cache answers
    redis_cache,    \* cache.py:16-22 the module-level client: "client" or "none"
    backoff,        \* the retry delay Celery computes for a failed task
    cleanup,        \* cleanup.py: the retention in force, the count last reported
    exchange        \* one HTTP attempt: what the request ended in, the row logged

vars == <<subscriptions, cache, deliveries, attempts, queue, worker, api, now,
          sent, procWrites, redelivered, removed, answered, redis_up,
          redis_cache, backoff, cleanup, exchange>>

Idle == [pc |-> "idle", delivery_id |-> NoDelivery, retries |-> 0,
         cache |-> "none", status |-> "none", subscription |-> NoSub,
         response |-> "none", outcome |-> "none", now |-> NoTime]

\* The request the API is serving, or the last one it served with the
\* response it gave.
ApiIdle == [pc |-> "idle", endpoint |-> "none", subscription_id |-> "none",
            header |-> NoHeader, body |-> "none", target_url |-> "none",
            cache |-> "none", delivery_id |-> NoDelivery,
            response |-> NoResponse]

\* ------------------------------------------------------------ pure helpers

\* cache.py:24-38 get_cache: the module-level client when its ping answers;
\* without one (the connection failed at import) a new client, or None when
\* that fails too.  The ping of the module-level client is outside the try:
\* when the server does not answer, its ConnectionError leaves get_cache.
get_cache(client, up) ==
    IF client = "client"
    THEN (IF up THEN "client" ELSE "raises")
    ELSE (IF up THEN "client" ELSE "none")

\* cache.py:45-67 get_subscription_from_cache: None without a client, on a
\* miss, on a RedisError and on a json.JSONDecodeError; else
\* Subscription(**json.loads(cached_data)), the stored copy, whose pydantic
\* ValidationError (or TypeError, for JSON that is not an object) no except
\* clause catches.
get_subscription_from_cache(c, client, up, subscription_id) ==
    IF client = "client" /\ up
    THEN CASE c[subscription_id] = InvalidJson -> NoSub
           [] c[subscription_id] = InvalidShape -> Raised
           [] OTHER -> c[subscription_id]
    ELSE NoSub

\* cache.py:61-67  the cache after get_subscription_from_cache: the except
\* clause for json.JSONDecodeError deletes the key; nothing else is written.
evicted_by_get(c, client, up, subscription_id) ==
    IF client = "client" /\ up /\ c[subscription_id] = InvalidJson
    THEN [c EXCEPT ![subscription_id] = NoSub]
    ELSE c

\* cache.py:69-80 set_subscription_in_cache: nothing without a client or on a
\* RedisError; else the key holds the subscription.
set_subscription_in_cache(c, client, up, subscription) ==
    IF client = "client" /\ up THEN [c EXCEPT ![subscription.id] = subscription]
    ELSE c

\* Mutant of IsTerminal: the pre-check only knows success.
IsTerminal_OnlySuccess(status) == status = "success"

\* delivery.py:59  delivery.status in ["success", "failed"]
IsTerminal(status) == status \in {"success", "failed"}

\* deliveries.py:42-58 update_delivery_status: writes status, and
\* last_attempt_at only when the caller passes one; rows are matched by id.
update_delivery_status(table, delivery_id, status, last_attempt_at) ==
    [i \in DOMAIN table |->
        IF i = delivery_id
        THEN [table[i] EXCEPT
                !.status = status,
                !.last_attempt_at =
                    IF last_attempt_at # NoTime THEN last_attempt_at ELSE @]
        ELSE table[i]]

\* deliveries.py:56-58  the store call of update_delivery_status raised: the
\* exception is printed and None returned; nothing was written.
update_delivery_status_failed(table, delivery_id, status, last_attempt_at) ==
    table

\* Mutant of NewDelivery: the row is inserted as already processing.
NewDelivery_Processing(subscription_id, payload) ==
    [subscription_id |-> subscription_id, payload |-> payload,
     status |-> "processing", last_attempt_at |-> NoTime]

\* deliveries.py:9-26 create_webhook_delivery: the inserted row.
NewDelivery(subscription_id, payload) ==
    [subscription_id |-> subscription_id, payload |-> payload,
     status |-> "pending", last_attempt_at |-> NoTime]

\* security.py:29  method.lower()
Lower(method) == IF method = "SHA256" THEN "sha256" ELSE method

\* Mutant of verify_signature: every request passes.
verify_signature_Skipped(secret, request_body, signature_header) == "true"

\* security.py:5-47 verify_signature: "true" or "false" as returned; "raises"
\* when hmac.compare_digest is given text that is not ASCII (a TypeError, which
\* nothing in the function or in ingest catches).
verify_signature(secret, request_body, signature_header) ==
    IF secret = NoSecret \/ secret = "" THEN "true"
    ELSE IF signature_header.form = "absent" THEN "false"
    ELSE IF signature_header.form = "noeq" THEN "false"
    ELSE IF Lower(signature_header.method) # "sha256" THEN "false"
    ELSE IF ~signature_header.digest.ascii THEN "raises"
    ELSE IF signature_header.digest = HmacHex(secret, request_body) THEN "true"
    ELSE "false"

\* ingestion.py:63-78  the payload json.loads gives: {} for no bytes, the
\* parsed value, or "error" (answered 400).
ParseJson(raw_body) ==
    CASE raw_body = "empty" -> "{}"
      [] raw_body = "invalid" -> "error"
      [] OTHER -> raw_body

\* models/webhook.py:8  payload: Dict[str, Any]: a row whose payload is not a
\* JSON object does not validate as a WebhookDelivery.
Validates(payload) == payload \in {"{}", "object"}

\* ingestion.py:42-78  what ingest answers before it writes anything: 404 for
\* an unknown subscription, 401 for a rejected signature (500 when the verifier
\* raises), 400 for a body that does not parse; NoResponse when it goes on.
IngestDecision(subscription, signature_header, raw_body) ==
    IF subscription = NoSub THEN 404
    ELSE LET verified == verify_signature(subscription.secret_key, raw_body,
                                          signature_header) IN
         IF verified = "raises" THEN 500
         ELSE IF verified = "false" THEN 401
         ELSE IF ParseJson(raw_body) = "error" THEN 400
         ELSE NoResponse

\* Mutant of InsertResponse: an unusable row is answered as a bad request.
InsertResponse_BadRequest(payload) ==
    IF Validates(payload) THEN NoResponse ELSE 400

\* ingestion.py:83-95, deliveries.py:18-26  the row is inserted, then read back
\* as a WebhookDelivery; create_webhook_delivery returns None when that fails
\* and ingest answers 500.
InsertResponse(payload) ==
    IF Validates(payload) THEN NoResponse ELSE 500

\* Mutant of AttemptNumber: the retry counter itself, zero-based.
AttemptNumber_ZeroBased(retries) == retries

\* delivery.py:49  attempt_number = self.request.retries + 1
AttemptNumber(retries) == retries + 1

\* delivery.py:88-134: outcome stays "failed" unless raise_for_status passed.
Outcome(response) == IF response = "2xx" THEN "success" ELSE "failed"

\* delivery.py:99  status_code is set only when a response was received.
StatusCode(response) ==
    CASE response = "2xx" -> 200
      [] response = "non2xx" -> 503
      [] OTHER -> NoCode

\* delivery.py:111-134  error_message per except clause ("Request timed out"
\* and "Request failed" are both a request error here); None on success.
ErrorMessage(response) ==
    CASE response = "2xx" -> "none"
      [] response = "non2xx" -> "Target returned non-2xx status"
      [] response = "request_error" -> "Request failed"
      [] OTHER -> "Unexpected error"

\* delivery.py:137-145  the row create_delivery_attempt inserts; timestamp is
\* the table's default (the insertion time).
AttemptRow(retries, response, timestamp) ==
    [attempt_number |-> AttemptNumber(retries),
     outcome |-> Outcome(response),
     status_code |-> StatusCode(response),
     error_message |-> ErrorMessage(response),
     timestamp |-> timestamp]

\* delivery.py:88-90  status_code, response_body, error_message = None
NoBody == "none"
NoMessage == "none"

\* Status codes a response can carry, and the texts of its body.
StatusCodes == 100..599
Texts == {"", "ok"}

\* delivery.py:94-134  what client.post ends in: a response, an
\* httpx.TimeoutException, another httpx.RequestError, any other exception.
HttpResults ==
    [kind : {"response"}, status_code : StatusCodes, text : Texts]
      \cup [kind : {"timeout", "request_error", "unexpected"},
            status_code : {NoCode}, text : {NoBody}]

\* Mutant of is_success: a redirect passes raise_for_status.
is_success_Below400(status_code) == status_code \in 200..399

\* delivery.py:104  response.raise_for_status() returns for a response whose
\* is_success holds (httpx: 200 <= status_code <= 299) and raises
\* HTTPStatusError for every other one.
is_success(status_code) == status_code \in 200..299

\* delivery.py:88-134  the values the finally block finds after the request:
\* status_code and response_body are set once a response is there
\* (delivery.py:99-102), outcome only after raise_for_status has returned
\* (delivery.py:107), error_message by the except clause that caught.
Classify(result) ==
    CASE result.kind = "timeout" ->
           [outcome |-> "failed", status_code |-> NoCode,
            response_body |-> NoBody, error_message |-> "Request timed out"]
      [] result.kind = "request_error" ->
           [outcome |-> "failed", status_code |-> NoCode,
            response_body |-> NoBody, error_message |-> "Request failed"]
      [] result.kind = "response" /\ is_success(result.status_code) ->
           [outcome |-> "success", status_code |-> result.status_code,
            response_body |-> result.text, error_message |-> NoMessage]
      [] result.kind = "response" /\ ~is_success(result.status_code) ->
           [outcome |-> "failed", status_code |-> result.status_code,
            response_body |-> result.text,
            error_message |-> "Target returned non-2xx status"]
      [] OTHER ->
           [outcome |-> "failed", status_code |-> NoCode,
            response_body |-> NoBody, error_message |-> "Unexpected error"]

\* delivery.py:137-144  the DeliveryAttemptCreate the finally block builds.
AttemptLog(retries, result) ==
    LET c == Classify(result) IN
    [attempt_number |-> AttemptNumber(retries),
     outcome |-> c.outcome,
     status_code |-> c.status_code,
     response_body |-> c.response_body,
     error_message |-> c.error_message]

NoLog == [attempt_number |-> 0, outcome |-> "none", status_code |-> NoCode,
          response_body |-> NoBody, error_message |-> NoMessage]

\* No HTTP attempt is looked at.
NoExchange == [retries |-> 0,
               result |-> [kind |-> "none", status_code |-> NoCode,
                           text |-> NoBody],
               attempt_log |-> NoLog]

\* Mutant of NeedsFailureWrite: the finally block writes no status.
NeedsFailureWrite_Never(outcome) == FALSE

\* Mutant of NeedsFailureWrite: the finally block writes the failure status
\* whatever the outcome.
NeedsFailureWrite_Always(outcome) == TRUE

\* Mutant of NeedsProcessingWrite: only a pending delivery is marked.
NeedsProcessingWrite_OnlyPending(status) == status = "pending"

\* delivery.py:79  if delivery.status != "processing"
NeedsProcessingWrite(status) == status # "processing"

\* delivery.py:148  if outcome == "failed"
NeedsFailureWrite(outcome) == outcome = "failed"

\* Mutant of FailureStatus: gives up one attempt early.
FailureStatus_OneEarly(retries) ==
    IF retries >= MAX_RETRIES - 1 THEN "failed" ELSE "failed_attempt"

\* delivery.py:150-156  failed once the retries are used up, else failed_attempt.
FailureStatus(retries) ==
    IF retries >= MAX_RETRIES THEN "failed" ELSE "failed_attempt"

\* delivery.py:36  autoretry_for=(httpx.RequestError, httpx.TimeoutException,
\* DeliveryFailureError): the exceptions for which Celery calls Task.retry.
\* The except-Exception clause of delivery.py:126-134 re-raises an exception
\* that is none of these.
AutoretryFor == {"non2xx", "request_error"}

\* Mutant of WillRetry: no limit on the retries, for any exception.
WillRetry_Always(response, retries) == TRUE

\* delivery.py:34-41  Celery's autoretry wrapper calls
\* Task.retry(exc, max_retries=MAX_RETRIES), which re-raises exc instead of
\* sending the task again when request.retries + 1 > max_retries.
WillRetry(response, retries) ==
    response \in AutoretryFor /\ retries + 1 <= MAX_RETRIES

Min(a, b) == IF a <= b THEN a ELSE b

\* Mutant of BackoffInterval: the maximum is not applied.
BackoffInterval_Uncapped(factor, retries, maximum) == factor * (2 ^ retries)

\* Mutant of BackoffInterval: the exponent counts the attempt, not the retry.
BackoffInterval_ByAttempt(factor, retries, maximum) ==
    Min(maximum, factor * (2 ^ (retries + 1)))

\* delivery.py:38-39  retry_backoff=INITIAL_RETRY_DELAY_SECONDS,
\* retry_backoff_max=MAX_RETRY_BACKOFF_SECONDS: Celery computes
\* min(maximum, factor * 2 ** retries) with retries = self.request.retries.
BackoffInterval(factor, retries, maximum) ==
    Min(maximum, factor * (2 ^ retries))

\* delivery.py:40  retry_jitter=True: Celery replaces the interval by
\* random.randrange(interval + 1), an integer from 0 to the interval.
JitterSamples(interval) == 0..interval

\* The retry delay has not been computed.
NoCountdown == -1

\* cleanup_old_logs has reported no count (-1 is the count of a failed delete).
NoCount == -2

\* Mutant of RetryMessage: the task is sent again as a fresh task.
RetryMessage_SameCount(delivery_id, retries) ==
    [delivery_id |-> delivery_id, retries |-> retries]

\* The message Task.retry sends: same delivery_id, retries incremented.
RetryMessage(delivery_id, retries) ==
    [delivery_id |-> delivery_id, retries |-> retries + 1]

\* ingestion.py:102  deliver_webhook.delay(delivery_id_str): retries = 0.
FirstMessage(delivery_id) == [delivery_id |-> delivery_id, retries |-> 0]

\* Mutant of InsertRow: the row is inserted twice.
InsertRow_Twice(rows, row) == rows (+) SetToBag({row}) (+) SetToBag({row})

\* Mutant of InsertRow: the insert is lost.
InsertRow_Lost(rows, row) == rows

\* attempts.py:9-25 create_delivery_attempt: one more row in the table (a
\* table is a bag of rows; the serial id column is left out).
InsertRow(rows, row) == rows (+) SetToBag({row})

\* attempts.py:22-25  the store call of create_delivery_attempt raised: the
\* exception is printed and None returned; no row was inserted.
create_delivery_attempt_failed(rows, row) == rows

\* Mutant of delete_attempts_older_than: rows at the cutoff go as well.
delete_attempts_older_than_Lte(rows, cutoff) ==
    [r \in {x \in DOMAIN rows : ~(x.timestamp <= cutoff)} |-> rows[r]]

\* attempts.py:27-51 delete_attempts_older_than: .lt("timestamp", cutoff)
\* deletes the older rows; what is left of the table.
delete_attempts_older_than(rows, cutoff) ==
    [r \in {x \in DOMAIN rows : ~(x.timestamp < cutoff)} |-> rows[r]]

\* attempts.py:43-44  response.data of the delete: the deleted rows, whose
\* number is the count returned.
deleted_rows(rows, cutoff) ==
    [r \in {x \in DOMAIN rows : x.timestamp < cutoff} |-> rows[r]]

Enqueue(q, m) == [q EXCEPT ![m] = @ + 1]

\* Mutant of EnqueueFailed: the message was published all the same.
EnqueueFailed_Published(q, m) == Enqueue(q, m)

\* ingestion.py:105-112  deliver_webhook.delay raised: nothing was published.
EnqueueFailed(q, m) == q

\* cache.py:82-92 delete_subscription_from_cache: the key is removed; nothing
\* without a client or on a RedisError.
delete_subscription_from_cache(c, client, up, subscription_id) ==
    IF client = "client" /\ up THEN [c EXCEPT ![subscription_id] = NoSub]
    ELSE c

\* db/subscriptions.py:69-91 update_subscription with a new target_url.
update_subscription(table, subscription_id, target_url) ==
    [table EXCEPT ![subscription_id].target_url = target_url]

\* models/subscription.py:15  secret_key of a SubscriptionUpdate that sets it:
\* null, the empty string or a secret.
NewSecrets == {NoSecret, "", "k1", "k2"}

\* db/subscriptions.py:69-91 update_subscription with secret_key set in the
\* request: the empty string is stored as null, anything else, null included,
\* as it is given.
update_secret_key(table, subscription_id, secret_key) ==
    [table EXCEPT ![subscription_id].secret_key =
        IF secret_key = "" THEN NoSecret ELSE secret_key]

SubscriptionOf(delivery_id) == deliveries[delivery_id].subscription_id

\* ------------------------------------------------------------------- Init

Subscription(id, target_url, secret_key) ==
    [id |-> id, target_url |-> target_url, secret_key |-> secret_key]

\* Empty tables, cache and broker.
InitTables ==
    /\ cache = [s \in SubIds |-> NoSub]
    /\ deliveries = << >>
    /\ attempts = [d \in DeliveryIds |-> EmptyBag]
    /\ queue = [m \in Messages |-> 0]
    /\ worker = [w \in Workers |-> Idle]
    /\ api = ApiIdle
    /\ now = 0
    /\ sent = [d \in DeliveryIds |-> 0]
    /\ procWrites = [d \in DeliveryIds |-> 0]
    /\ redelivered = 0
    /\ removed = [d \in DeliveryIds |-> 0]
    /\ answered = [d \in DeliveryIds |-> NoResponse]

\* Everything but the subscriptions table: empty tables, cache and broker, no
\* HTTP attempt looked at.
InitRest ==
    /\ InitTables
    /\ exchange = NoExchange

\* cleanup.py:11  the retention the sweeper was started with; no run yet.
InitCleanup(hours) ==
    cleanup = [LOG_RETENTION_HOURS |-> hours, deleted_count |-> NoCount]

\* cache.py:16-22  the connection made when the module is imported: the client,
\* or None when the server did not answer.
ImportCache(up) == IF up THEN "client" ELSE "none"

\* The cache server answers, and answered when the processes started; no
\* retry delay has been computed.
InitRedis ==
    /\ redis_up = TRUE
    /\ redis_cache = ImportCache(TRUE)
    /\ backoff = [retries |-> 0, interval |-> NoCountdown,
                  countdown |-> NoCountdown]
    /\ InitCleanup(LOG_RETENTION_HOURS)

\* One subscription has been created, with a secret.
Init ==
    /\ subscriptions = [s \in SubIds |-> Subscription(s, "u1", "k1")]
    /\ InitRest
    /\ InitRedis

\* One subscription has been created: without a secret, with an empty one or
\* with a secret.
InitIngest ==
    /\ \E k \in Secrets :
         subscriptions = [s \in SubIds |-> Subscription(s, "u1", k)]
    /\ InitRest
    /\ InitRedis

\* The cache server may have been out of reach when the processes started.
InitCacheDown ==
    /\ subscriptions = [s \in SubIds |-> Subscription(s, "u1", "k1")]
    /\ InitRest
    /\ redis_up \in BOOLEAN
    /\ redis_cache = ImportCache(redis_up)
    /\ backoff = [retries |-> 0, interval |-> NoCountdown,
                  countdown |-> NoCountdown]
    /\ InitCleanup(LOG_RETENTION_HOURS)

\* A task with any retry counter is about to fail with an exception of
\* autoretry_for.
InitBackoff ==
    /\ subscriptions = [s \in SubIds |-> Subscription(s, "u1", "k1")]
    /\ InitRest
    /\ redis_up = TRUE
    /\ redis_cache = ImportCache(TRUE)
    /\ \E retries \in 0..MaxBackoffRetries :
         backoff = [retries |-> retries, interval |-> NoCountdown,
                    countdown |-> NoCountdown]
    /\ InitCleanup(LOG_RETENTION_HOURS)

\* A task with any retry counter has sent its request, which ended in any of
\* the ways it can.
InitAttempt ==
    /\ subscriptions = [s \in SubIds |-> Subscription(s, "u1", "k1")]
    /\ InitTables
    /\ InitRedis
    /\ \E retries \in 0..MAX_RETRIES : \E result \in HttpResults :
         exchange = [retries |-> retries, result |-> result,
                     attempt_log |-> NoLog]

\* The sweeper may run with the retention disabled (LOG_RETENTION_HOURS <= 0).
InitRetention ==
    /\ subscriptions = [s \in SubIds |-> Subscription(s, "u1", "k1")]
    /\ InitRest
    /\ redis_up = TRUE
    /\ redis_cache = ImportCache(TRUE)
    /\ backoff = [retries |-> 0, interval |-> NoCountdown,
                  countdown |-> NoCountdown]
    /\ \E hours \in {-1, 0, LOG_RETENTION_HOURS} : InitCleanup(hours)

\* ----------------------------------------------------------------- ingest

\* Mutant of IngestStart: the subscription is taken from the cache when it is
\* there.
IngestStart_FromCache(s, h, b) ==
    /\ api.pc = "idle"
    /\ LET subscription == IF cache[s] \in {NoSub, InvalidJson, InvalidShape}
                           THEN subscriptions[s] ELSE cache[s]
           decision == IngestDecision(subscription, h, b) IN
       /\ decision = NoResponse => Len(deliveries) < MaxDeliveries
       /\ api' = [ApiIdle EXCEPT
                    !.pc = IF decision = NoResponse THEN "insert" ELSE "idle",
                    !.endpoint = "ingest",
                    !.subscription_id = s,
                    !.header = h,
                    !.body = b,
                    !.response = decision]
    /\ UNCHANGED <<subscriptions, cache, deliveries, attempts, queue, worker,
                   now, sent, procWrites, redelivered, removed, answered,
                   redis_up, redis_cache, backoff, cleanup, exchange>>

\* ingestion.py:42-78  get_subscription, verify_signature and json.loads: the
\* request is answered 404, 401, 400 (500 when the verifier raises), or goes on
\* to the insert.
IngestStart(s, h, b) ==
    /\ api.pc = "idle"
    /\ LET decision == IngestDecision(subscriptions[s], h, b) IN
       /\ decision = NoResponse => Len(deliveries) < MaxDeliveries
       /\ api' = [ApiIdle EXCEPT
                    !.pc = IF decision = NoResponse THEN "insert" ELSE "idle",
                    !.endpoint = "ingest",
                    !.subscription_id = s,
                    !.header = h,
                    !.body = b,
                    !.response = decision]
    /\ UNCHANGED <<subscriptions, cache, deliveries, attempts, queue, worker,
                   now, sent, procWrites, redelivered, removed, answered,
                   redis_up, redis_cache, backoff, cleanup, exchange>>

\* A caller that signs a JSON object with the secret of the subscription.
IngestSigned(s) ==
    IngestStart(s, SignedHeader("sha256", "k1", "object"), "object")

\* ingestion.py:80-95, deliveries.py:9-26  create_webhook_delivery: the row is
\* inserted with status pending; 500 when the row read back does not validate.
IngestInsert ==
    /\ api.pc = "insert"
    /\ LET payload == ParseJson(api.body)
           id == Len(deliveries) + 1
           response == InsertResponse(payload) IN
       /\ deliveries' = Append(deliveries,
                               NewDelivery(api.subscription_id, payload))
       /\ api' = [api EXCEPT
                    !.pc = IF response = NoResponse THEN "enqueue" ELSE "idle",
                    !.delivery_id = id,
                    !.response = response]
       /\ answered' = [answered EXCEPT ![id] = response]
    /\ UNCHANGED <<subscriptions, cache, attempts, queue, worker, now, sent,
                   procWrites, redelivered, removed,
                   redis_up, redis_cache, backoff, cleanup, exchange>>

\* ingestion.py:97-104, 114-116  the task is sent to the broker, then 202.
IngestEnqueue ==
    /\ api.pc = "enqueue"
    /\ queue' = Enqueue(queue, FirstMessage(api.delivery_id))
    /\ api' = [api EXCEPT !.pc = "idle", !.response = 202]
    /\ answered' = [answered EXCEPT ![api.delivery_id] = 202]
    /\ UNCHANGED <<subscriptions, cache, deliveries, attempts, worker, now,
                   sent, procWrites, redelivered, removed,
                   redis_up, redis_cache, backoff, cleanup, exchange>>

\* ingestion.py:105-112  the broker cannot be reached: delay raises, then 500.
IngestEnqueueFails ==
    /\ api.pc = "enqueue"
    /\ queue' = EnqueueFailed(queue, FirstMessage(api.delivery_id))
    /\ api' = [api EXCEPT !.pc = "idle", !.response = 500]
    /\ answered' = [answered EXCEPT ![api.delivery_id] = 500]
    /\ UNCHANGED <<subscriptions, cache, deliveries, attempts, worker, now,
                   sent, procWrites, redelivered, removed,
                   redis_up, redis_cache, backoff, cleanup, exchange>>

\* ---------------------------------------------------- delete subscription

\* subscriptions.py:120-131, db/subscriptions.py:93-104  the get_cache
\* dependency is resolved first (an exception of it is answered 500 before the
\* handler runs), then the row is deleted; a missing row is answered 404.
DeleteStore(s) ==
    /\ api.pc = "idle"
    /\ LET client == get_cache(redis_cache, redis_up)
           found == subscriptions[s] # NoSub IN
       /\ subscriptions' = IF client = "raises" THEN subscriptions
                           ELSE [subscriptions EXCEPT ![s] = NoSub]
       /\ api' = [ApiIdle EXCEPT
                    !.pc = IF client # "raises" /\ found THEN "invalidate"
                           ELSE "idle",
                    !.endpoint = "delete",
                    !.subscription_id = s,
                    !.cache = IF client = "raises" THEN "none" ELSE client,
                    !.response = IF client = "raises" THEN 500
                                 ELSE IF found THEN NoResponse
                                 ELSE 404]
    /\ UNCHANGED <<cache, deliveries, attempts, queue, worker, now, sent,
                   procWrites, redelivered, removed, answered,
                   redis_up, redis_cache, backoff, cleanup, exchange>>

\* subscriptions.py:134-138, cache.py:82-92  delete_subscription_from_cache,
\* then 204.
DeleteInvalidate ==
    /\ api.pc = "invalidate"
    /\ api.endpoint = "delete"
    /\ cache' = delete_subscription_from_cache(cache, api.cache, redis_up,
                                               api.subscription_id)
    /\ api' = [api EXCEPT !.pc = "idle", !.response = 204]
    /\ UNCHANGED <<subscriptions, deliveries, attempts, queue, worker, now,
                   sent, procWrites, redelivered, removed, answered,
                   redis_up, redis_cache, backoff, cleanup, exchange>>

\* ---------------------------------------------------- update subscription

\* subscriptions.py:80-106, db/subscriptions.py:69-91  the get_cache
\* dependency (500 when it raises), get_subscription (404 when there is no
\* row), then update_subscription with a new target_url.  The two store calls
\* are one step: only the API writes this table, and it serves one request at
\* a time.
UpdateStore(s, url) ==
    /\ api.pc = "idle"
    /\ LET client == get_cache(redis_cache, redis_up)
           found == subscriptions[s] # NoSub IN
       /\ subscriptions' = IF client # "raises" /\ found
                           THEN update_subscription(subscriptions, s, url)
                           ELSE subscriptions
       /\ api' = [ApiIdle EXCEPT
                    !.pc = IF client # "raises" /\ found THEN "invalidate"
                           ELSE "idle",
                    !.endpoint = "update",
                    !.subscription_id = s,
                    !.target_url = url,
                    !.cache = IF client = "raises" THEN "none" ELSE client,
                    !.response = IF client = "raises" THEN 500
                                 ELSE IF found THEN NoResponse
                                 ELSE 404]
    /\ UNCHANGED <<cache, deliveries, attempts, queue, worker, now, sent,
                   procWrites, redelivered, removed, answered,
                   redis_up, redis_cache, backoff, cleanup, exchange>>

\* subscriptions.py:80-106, db/subscriptions.py:69-91  the same handler for a
\* request that sets secret_key.
UpdateSecret(s, secret_key) ==
    /\ api.pc = "idle"
    /\ LET client == get_cache(redis_cache, redis_up)
           found == subscriptions[s] # NoSub IN
       /\ subscriptions' = IF client # "raises" /\ found
                           THEN update_secret_key(subscriptions, s, secret_key)
                           ELSE subscriptions
       /\ api' = [ApiIdle EXCEPT
                    !.pc = IF client # "raises" /\ found THEN "invalidate"
                           ELSE "idle",
                    !.endpoint = "update",
                    !.subscription_id = s,
                    !.cache = IF client = "raises" THEN "none" ELSE client,
                    !.response = IF client = "raises" THEN 500
                                 ELSE IF found THEN NoResponse
                                 ELSE 404]
    /\ UNCHANGED <<cache, deliveries, attempts, queue, worker, now, sent,
                   procWrites, redelivered, removed, answered,
                   redis_up, redis_cache, backoff, cleanup, exchange>>

\* subscriptions.py:108-112, cache.py:82-92  delete_subscription_from_cache,
\* then 200 with the updated row.
UpdateInvalidate ==
    /\ api.pc = "invalidate"
    /\ api.endpoint = "update"
    /\ cache' = delete_subscription_from_cache(cache, api.cache, redis_up,
                                               api.subscription_id)
    /\ api' = [api EXCEPT !.pc = "idle", !.response = 200]
    /\ UNCHANGED <<subscriptions, deliveries, attempts, queue, worker, now,
                   sent, procWrites, redelivered, removed, answered,
                   redis_up, redis_cache, backoff, cleanup, exchange>>

\* cache.py:12,77  the entry was set with ex=CACHE_TTL_SECONDS and expires.
CacheExpire(s) ==
    /\ cache[s] # NoSub
    /\ cache' = [cache EXCEPT ![s] = NoSub]
    /\ UNCHANGED <<subscriptions, deliveries, attempts, queue, worker, api,
                   now, sent, procWrites, redelivered, removed, answered,
                   redis_up, redis_cache, backoff, cleanup, exchange>>

\* ----------------------------------------------------------------- worker

\* The broker hands a waiting message to a free worker; Celery acknowledges
\* it as the task starts (celery_app.py:21-38 sets no late acknowledgement).
Dispatch(w, m) ==
    /\ worker[w].pc = "idle"
    /\ queue[m] > 0
    /\ queue' = [queue EXCEPT ![m] = @ - 1]
    /\ worker' = [worker EXCEPT ![w] =
                    [Idle EXCEPT !.pc = "get_delivery",
                                 !.delivery_id = m.delivery_id,
                                 !.retries = m.retries]]
    /\ UNCHANGED <<subscriptions, cache, deliveries, attempts, api, now, sent,
                   procWrites, redelivered, removed, answered,
                   redis_up, redis_cache, backoff, cleanup, exchange>>

\* delivery.py:48-61, deliveries.py:28-40  get_cache, whose exception ends
\* the task (it is not one of autoretry_for), then get_delivery, which returns
\* None for a missing row and for a row that does not validate; a missing or
\* terminal delivery ends the task.
GetDelivery(w) ==
    /\ worker[w].pc = "get_delivery"
    /\ LET id == worker[w].delivery_id
           client == get_cache(redis_cache, redis_up) IN
       worker' = [worker EXCEPT ![w] =
                    IF client = "raises"
                       \/ id \notin DOMAIN deliveries
                       \/ ~Validates(deliveries[id].payload)
                       \/ IsTerminal(deliveries[id].status)
                    THEN Idle
                    ELSE [@ EXCEPT !.pc = "cache_get",
                                   !.cache = client,
                                   !.status = deliveries[id].status]]
    /\ UNCHANGED <<subscriptions, cache, deliveries, attempts, queue, api, now,
                   sent, procWrites, redelivered, removed, answered,
                   redis_up, redis_cache, backoff, cleanup, exchange>>

\* delivery.py:64-68, cache.py:45-67  get_subscription_from_cache, when there
\* is a client; an exception of it ends the task (it is not one of
\* autoretry_for).
CacheGet(w) ==
    /\ worker[w].pc = "cache_get"
    /\ LET hit == get_subscription_from_cache(
                      cache, worker[w].cache, redis_up,
                      SubscriptionOf(worker[w].delivery_id)) IN
       worker' = [worker EXCEPT ![w] =
                    IF hit = Raised THEN Idle
                    ELSE [@ EXCEPT !.subscription = hit,
                                   !.pc = IF hit # NoSub THEN "set_processing"
                                          ELSE "get_subscription"]]
    /\ cache' = evicted_by_get(cache, worker[w].cache, redis_up,
                               SubscriptionOf(worker[w].delivery_id))
    /\ UNCHANGED <<subscriptions, deliveries, attempts, queue, api, now,
                   sent, procWrites, redelivered, removed, answered,
                   redis_up, redis_cache, backoff, cleanup, exchange>>

\* delivery.py:69-70, db/subscriptions.py:31-43  get_subscription on a cache
\* miss; the row is put in the cache when there is a client.
GetSubscription(w) ==
    /\ worker[w].pc = "get_subscription"
    /\ LET row == subscriptions[SubscriptionOf(worker[w].delivery_id)] IN
       worker' = [worker EXCEPT ![w] =
                    [@ EXCEPT !.subscription = row,
                              !.pc = IF row = NoSub THEN "mark_missing"
                                     ELSE IF worker[w].cache = "client"
                                     THEN "cache_set"
                                     ELSE "set_processing"]]
    /\ UNCHANGED <<subscriptions, cache, deliveries, attempts, queue, api, now,
                   sent, procWrites, redelivered, removed, answered,
                   redis_up, redis_cache, backoff, cleanup, exchange>>

\* delivery.py:70-71, cache.py:69-80  set_subscription_in_cache.
CacheSet(w) ==
    /\ worker[w].pc = "cache_set"
    /\ cache' = set_subscription_in_cache(cache, worker[w].cache, redis_up,
                                          worker[w].subscription)
    /\ worker' = [worker EXCEPT ![w].pc = "set_processing"]
    /\ UNCHANGED <<subscriptions, deliveries, attempts, queue, api, now, sent,
                   procWrites, redelivered, removed, answered,
                   redis_up, redis_cache, backoff, cleanup, exchange>>

\* delivery.py:73-76  no subscription: status failed, and the task returns.
MarkMissing(w) ==
    /\ worker[w].pc = "mark_missing"
    /\ deliveries' = update_delivery_status(deliveries, worker[w].delivery_id,
                                            "failed", now)
    /\ worker' = [worker EXCEPT ![w] = Idle]
    /\ UNCHANGED <<subscriptions, cache, attempts, queue, api, now, sent,
                   procWrites, redelivered, removed, answered,
                   redis_up, redis_cache, backoff, cleanup, exchange>>

\* delivery.py:79-80  status processing, unless the row read was processing.
SetProcessing(w) ==
    /\ worker[w].pc = "set_processing"
    /\ LET id == worker[w].delivery_id
           write == NeedsProcessingWrite(worker[w].status) IN
       /\ deliveries' = IF write
                        THEN update_delivery_status(deliveries, id,
                                                    "processing", NoTime)
                        ELSE deliveries
       /\ procWrites' = IF write THEN [procWrites EXCEPT ![id] = @ + 1]
                        ELSE procWrites
    /\ worker' = [worker EXCEPT ![w].pc = "http_post"]
    /\ UNCHANGED <<subscriptions, cache, attempts, queue, api, now, sent,
                   redelivered, removed, answered,
                   redis_up, redis_cache, backoff, cleanup, exchange>>

\* delivery.py:88-107, 111-134  the POST to target_url and its classification,
\* for a target whose answers are among the given ones.
HttpPostTo(w, answers) ==
    /\ worker[w].pc = "http_post"
    /\ \E response \in answers :
         worker' = [worker EXCEPT ![w] =
                      [@ EXCEPT !.response = response,
                                !.outcome = Outcome(response),
                                !.now = now,
                                !.pc = IF Outcome(response) = "success"
                                       THEN "write_success"
                                       ELSE "log_attempt"]]
    /\ sent' = [sent EXCEPT ![worker[w].delivery_id] = @ + 1]
    /\ UNCHANGED <<subscriptions, cache, deliveries, attempts, queue, api, now,
                   procWrites, redelivered, removed, answered,
                   redis_up, redis_cache, backoff, cleanup, exchange>>

\* The POST to a target that is free to answer anything.
HttpPost(w) == HttpPostTo(w, Responses)

\* delivery.py:109  status success with last_attempt_at = now.
WriteSuccess(w) ==
    /\ worker[w].pc = "write_success"
    /\ deliveries' = update_delivery_status(deliveries, worker[w].delivery_id,
                                            "success", worker[w].now)
    /\ worker' = [worker EXCEPT ![w].pc = "log_attempt"]
    /\ UNCHANGED <<subscriptions, cache, attempts, queue, api, now, sent,
                   procWrites, redelivered, removed, answered,
                   redis_up, redis_cache, backoff, cleanup, exchange>>

\* delivery.py:135-145, 158  finally: the attempt row is inserted; a
\* successful task returns here.
LogAttempt(w) ==
    /\ worker[w].pc = "log_attempt"
    /\ attempts' = [attempts EXCEPT ![worker[w].delivery_id] =
                      InsertRow(@, AttemptRow(worker[w].retries,
                                              worker[w].response, now))]
    /\ worker' = [worker EXCEPT ![w] =
                    IF NeedsFailureWrite(worker[w].outcome)
                    THEN [@ EXCEPT !.pc = "write_failure"]
                    ELSE Idle]
    /\ UNCHANGED <<subscriptions, cache, deliveries, queue, api, now, sent,
                   procWrites, redelivered, removed, answered,
                   redis_up, redis_cache, backoff, cleanup, exchange>>

\* delivery.py:148-156  finally: status failed or failed_attempt.
WriteFailure(w) ==
    /\ worker[w].pc = "write_failure"
    /\ deliveries' = update_delivery_status(deliveries, worker[w].delivery_id,
                                            FailureStatus(worker[w].retries),
                                            worker[w].now)
    /\ worker' = [worker EXCEPT ![w].pc = "autoretry"]
    /\ UNCHANGED <<subscriptions, cache, attempts, queue, api, now, sent,
                   procWrites, redelivered, removed, answered,
                   redis_up, redis_cache, backoff, cleanup, exchange>>

\* delivery.py:53-56, deliveries.py:38-40  the store call of get_delivery
\* raised: the exception is printed and None returned, and the task returns
\* as for a delivery that is not there.
GetDeliveryFails(w) ==
    /\ worker[w].pc = "get_delivery"
    /\ get_cache(redis_cache, redis_up) # "raises"
    /\ worker' = [worker EXCEPT ![w] = Idle]
    /\ UNCHANGED <<subscriptions, cache, deliveries, attempts, queue, api, now,
                   sent, procWrites, redelivered, removed, answered,
                   redis_up, redis_cache, backoff, cleanup, exchange>>

\* delivery.py:69-73, db/subscriptions.py:41-43  the store call of
\* get_subscription raised: the exception is printed and None returned, as
\* for a subscription that is not there.
GetSubscriptionFails(w) ==
    /\ worker[w].pc = "get_subscription"
    /\ worker' = [worker EXCEPT ![w] =
                    [@ EXCEPT !.subscription = NoSub, !.pc = "mark_missing"]]
    /\ UNCHANGED <<subscriptions, cache, deliveries, attempts, queue, api, now,
                   sent, procWrites, redelivered, removed, answered,
                   redis_up, redis_cache, backoff, cleanup, exchange>>

\* delivery.py:79-80 with a store that does not take the write: the task goes
\* on, update_delivery_status having returned None.
SetProcessingFails(w) ==
    /\ worker[w].pc = "set_processing"
    /\ NeedsProcessingWrite(worker[w].status)
    /\ deliveries' = update_delivery_status_failed(
                         deliveries, worker[w].delivery_id, "processing",
                         NoTime)
    /\ worker' = [worker EXCEPT ![w].pc = "http_post"]
    /\ UNCHANGED <<subscriptions, cache, attempts, queue, api, now, sent,
                   procWrites, redelivered, removed, answered,
                   redis_up, redis_cache, backoff, cleanup, exchange>>

\* delivery.py:109 with a store that does not take the write.
WriteSuccessFails(w) ==
    /\ worker[w].pc = "write_success"
    /\ deliveries' = update_delivery_status_failed(
                         deliveries, worker[w].delivery_id, "success",
                         worker[w].now)
    /\ worker' = [worker EXCEPT ![w].pc = "log_attempt"]
    /\ UNCHANGED <<subscriptions, cache, attempts, queue, api, now, sent,
                   procWrites, redelivered, removed, answered,
                   redis_up, redis_cache, backoff, cleanup, exchange>>

\* delivery.py:135-145, 158 with a store that does not take the insert.
LogAttemptFails(w) ==
    /\ worker[w].pc = "log_attempt"
    /\ attempts' = [attempts EXCEPT ![worker[w].delivery_id] =
                      create_delivery_attempt_failed(
                          @, AttemptRow(worker[w].retries,
                                        worker[w].response, now))]
    /\ worker' = [worker EXCEPT ![w] =
                    IF NeedsFailureWrite(worker[w].outcome)
                    THEN [@ EXCEPT !.pc = "write_failure"]
                    ELSE Idle]
    /\ UNCHANGED <<subscriptions, cache, deliveries, queue, api, now, sent,
                   procWrites, redelivered, removed, answered,
                   redis_up, redis_cache, backoff, cleanup, exchange>>

\* delivery.py:148-156 with a store that does not take the write.
WriteFailureFails(w) ==
    /\ worker[w].pc = "write_failure"
    /\ deliveries' = update_delivery_status_failed(
                         deliveries, worker[w].delivery_id,
                         FailureStatus(worker[w].retries), worker[w].now)
    /\ worker' = [worker EXCEPT ![w].pc = "autoretry"]
    /\ UNCHANGED <<subscriptions, cache, attempts, queue, api, now, sent,
                   procWrites, redelivered, removed, answered,
                   redis_up, redis_cache, backoff, cleanup, exchange>>

\* delivery.py:34-41  the exception leaves the task: Celery sends the task
\* again for an exception of autoretry_for below max_retries, else the task
\* ends as failed.
Autoretry(w) ==
    /\ worker[w].pc = "autoretry"
    /\ queue' = IF WillRetry(worker[w].response, worker[w].retries)
                THEN Enqueue(queue, RetryMessage(worker[w].delivery_id,
                                                 worker[w].retries))
                ELSE queue
    /\ worker' = [worker EXCEPT ![w] = Idle]
    /\ UNCHANGED <<subscriptions, cache, deliveries, attempts, api, now, sent,
                   procWrites, redelivered, removed, answered,
                   redis_up, redis_cache, backoff, cleanup, exchange>>

\* delivery.py:34-41  Task.retry cannot publish the retry message (the broker
\* is out of reach): the publish error ends the task, nothing was sent.
AutoretryFails(w) ==
    /\ worker[w].pc = "autoretry"
    /\ WillRetry(worker[w].response, worker[w].retries)
    /\ queue' = EnqueueFailed(queue, RetryMessage(worker[w].delivery_id,
                                                  worker[w].retries))
    /\ worker' = [worker EXCEPT ![w] = Idle]
    /\ UNCHANGED <<subscriptions, cache, deliveries, attempts, api, now, sent,
                   procWrites, redelivered, removed, answered, redis_up,
                   redis_cache, backoff, cleanup, exchange>>

\* The broker hands out again a message that a worker holds: with the Redis
\* broker of celery_app.py:27-28 a reserved message is restored to the queue
\* once its visibility timeout passes, while the first copy still runs.
Redeliver(w) ==
    /\ worker[w].pc = "get_delivery"
    /\ redelivered < MaxRedeliveries
    /\ redelivered' = redelivered + 1
    /\ queue' = Enqueue(queue, [delivery_id |-> worker[w].delivery_id,
                                retries |-> worker[w].retries])
    /\ UNCHANGED <<subscriptions, cache, deliveries, attempts, worker, api,
                   now, sent, procWrites, removed, answered,
                   redis_up, redis_cache, backoff, cleanup, exchange>>

\* The worker process is killed while it executes a task.  The message was
\* acknowledged when the task started (celery_app.py:31-38 and delivery.py:34-41
\* set neither task_acks_late nor acks_late), so the broker has no copy left.
Crash(w) ==
    /\ worker[w].pc # "idle"
    /\ worker' = [worker EXCEPT ![w] = Idle]
    /\ UNCHANGED <<subscriptions, cache, deliveries, attempts, queue, api, now,
                   sent, procWrites, redelivered, removed, answered, redis_up,
                   redis_cache, backoff, cleanup, exchange>>

\* delivery.py:34-41  the countdown Celery's autoretry wrapper hands to
\* Task.retry for a task with this retry counter: the capped exponential
\* interval, then a jitter sample of it.
RetryCountdown ==
    /\ backoff.countdown = NoCountdown
    /\ LET interval == BackoffInterval(INITIAL_RETRY_DELAY_SECONDS,
                                       backoff.retries,
                                       MAX_RETRY_BACKOFF_SECONDS) IN
       \E sample \in JitterSamples(interval) :
           backoff' = [backoff EXCEPT !.interval = interval,
                                      !.countdown = sample]
    /\ UNCHANGED <<subscriptions, cache, deliveries, attempts, queue, worker,
                   api, now, sent, procWrites, redelivered, removed, answered,
                   redis_up, redis_cache, cleanup, exchange>>

\* delivery.py:135-145  finally: the attempt row built from what the request
\* ended in.
LogExchange ==
    /\ exchange.result.kind # "none"
    /\ exchange.attempt_log = NoLog
    /\ exchange' = [exchange EXCEPT
                      !.attempt_log = AttemptLog(exchange.retries,
                                                 exchange.result)]
    /\ UNCHANGED <<subscriptions, cache, deliveries, attempts, queue, worker,
                   api, now, sent, procWrites, redelivered, removed, answered,
                   redis_up, redis_cache, backoff, cleanup>>

\* Something other than set_subscription_in_cache (another program on the
\* same redis, an earlier release with another Subscription model) leaves a
\* value under the key of subscription s.
CorruptEntry(s, entry) ==
    /\ cache[s] # entry
    /\ cache' = [cache EXCEPT ![s] = entry]
    /\ UNCHANGED <<subscriptions, deliveries, attempts, queue, worker, api,
                   now, sent, procWrites, redelivered, removed, answered,
                   redis_up, redis_cache, backoff, cleanup, exchange>>

\* The cache server stops answering, or answers again.
RedisDown ==
    /\ redis_up
    /\ redis_up' = FALSE
    /\ UNCHANGED <<subscriptions, cache, deliveries, attempts, queue, worker,
                   api, now, sent, procWrites, redelivered, removed, answered,
                   redis_cache, backoff, cleanup, exchange>>

RedisUp ==
    /\ ~redis_up
    /\ redis_up' = TRUE
    /\ UNCHANGED <<subscriptions, cache, deliveries, attempts, queue, worker,
                   api, now, sent, procWrites, redelivered, removed, answered,
                   redis_cache, backoff, cleanup, exchange>>

\* ---------------------------------------------------- clock and sweeper

Tick ==
    /\ now < MaxTime
    /\ now' = now + 1
    /\ UNCHANGED <<subscriptions, cache, deliveries, attempts, queue, worker,
                   api, sent, procWrites, redelivered, removed,
                   answered,
                   redis_up, redis_cache, backoff, cleanup, exchange>>

\* Sum of f over the deliveries 1..n.
RECURSIVE SumTo(_, _)
SumTo(f, n) == IF n = 0 THEN 0 ELSE f[n] + SumTo(f, n - 1)

\* cleanup.py:13-27  cleanup_old_logs: nothing when the retention is disabled,
\* else every attempt row older than now - LOG_RETENTION_HOURS is deleted and
\* the number of deleted rows is reported.
cleanup_old_logs ==
    /\ LET disabled == cleanup.LOG_RETENTION_HOURS <= 0
           cutoff_time == now - cleanup.LOG_RETENTION_HOURS
           kept == [d \in DeliveryIds |->
                      IF disabled THEN attempts[d]
                      ELSE delete_attempts_older_than(attempts[d],
                                                      cutoff_time)]
           deleted == [d \in DeliveryIds |->
                         BagCardinality(deleted_rows(attempts[d],
                                                     cutoff_time))] IN
       /\ attempts' = kept
       /\ removed' = [d \in DeliveryIds |->
                        removed[d] + BagCardinality(attempts[d])
                                   - BagCardinality(kept[d])]
       /\ cleanup' = IF disabled THEN cleanup
                     ELSE [cleanup EXCEPT
                             !.deleted_count = SumTo(deleted, MaxDeliveries)]
    /\ UNCHANGED <<subscriptions, cache, deliveries, queue, worker, api, now,
                   sent, procWrites, redelivered, answered, redis_up,
                   redis_cache, backoff, exchange>>

\* --------------------------------------------------------- specifications

WorkerStep(w) ==
    \/ \E m \in Messages : Dispatch(w, m)
    \/ GetDelivery(w)
    \/ CacheGet(w)
    \/ GetSubscription(w)
    \/ CacheSet(w)
    \/ MarkMissing(w)
    \/ SetProcessing(w)
    \/ HttpPost(w)
    \/ WriteSuccess(w)
    \/ LogAttempt(w)
    \/ WriteFailure(w)
    \/ Autoretry(w)

ApiStep ==
    \/ \E s \in SubIds : IngestSigned(s)
    \/ IngestInsert
    \/ IngestEnqueue
    \/ \E s \in SubIds : DeleteStore(s)
    \/ DeleteInvalidate

Next ==
    \/ ApiStep
    \/ \E s \in SubIds : CacheExpire(s)
    \/ \E w \in Workers : WorkerStep(w)

\* Every message is executed by one worker at a time.
Spec == Init /\ [][Next]_vars

NextSweep ==
    \/ Next
    \/ Tick
    \/ cleanup_old_logs

\* Time passes and the retention sweeper runs.
SpecSweep == Init /\ [][NextSweep]_vars

NextRedeliver ==
    \/ Next
    \/ \E w \in Workers : Redeliver(w)

\* Time passes and the sweeper runs, with a retention or with none.
SpecRetention == InitRetention /\ [][NextSweep]_vars

\* The broker may hand a message out a second time while it is being executed.
SpecRedeliver == Init /\ [][NextRedeliver]_vars

NextIngest ==
    \/ Next
    \/ \E s \in SubIds : \E b \in Bodies : \E h \in HeadersFor(b) :
          IngestStart(s, h, b)

\* Callers send any body with any signature header, to a subscription with or
\* without a secret.
SpecIngest == InitIngest /\ [][NextIngest]_vars

NextQueueDown ==
    \/ Next
    \/ IngestEnqueueFails

\* The broker may be out of reach when ingest enqueues.
SpecQueueDown == Init /\ [][NextQueueDown]_vars

NextRetryDown ==
    \/ NextQueueDown
    \/ \E w \in Workers : AutoretryFails(w)

\* The broker may be out of reach whenever a message is to be published, by
\* ingest or by a retry.
SpecRetryDown == Init /\ [][NextRetryDown]_vars

NextUpdate ==
    \/ Next
    \/ \E s \in SubIds : \E url \in Urls : UpdateStore(s, url)
    \/ UpdateInvalidate

\* Subscriptions are updated while deliveries are in progress.
SpecUpdate == Init /\ [][NextUpdate]_vars

\* The steps of a task whose subscription is in the cache or in the store.
AttemptStep(w) ==
    \/ \E m \in Messages : Dispatch(w, m)
    \/ GetDelivery(w)
    \/ CacheGet(w)
    \/ GetSubscription(w)
    \/ CacheSet(w)
    \/ SetProcessing(w)
    \/ HttpPostTo(w, {"2xx", "non2xx"})
    \/ WriteSuccess(w)
    \/ LogAttempt(w)
    \/ WriteFailure(w)
    \/ Autoretry(w)

NextOverlap ==
    \/ \E s \in SubIds : IngestSigned(s)
    \/ IngestInsert
    \/ IngestEnqueue
    \/ \E w \in Workers : AttemptStep(w)
    \/ \E w \in Workers : Redeliver(w)
    \/ Tick

\* Executions of one delivery may overlap while time passes; the subscription
\* stays as it is.
SpecOverlap == Init /\ [][NextOverlap]_vars

NextCrash ==
    \/ Next
    \/ \E w \in Workers : Crash(w)

\* Worker processes may be killed at any point of a task.
SpecCrash == Init /\ [][NextCrash]_vars

NextCacheDown ==
    \/ Next
    \/ RedisDown
    \/ RedisUp

\* The cache server may be out of reach when the processes start, and may
\* stop answering and answer again at any time.
SpecCacheDown == InitCacheDown /\ [][NextCacheDown]_vars

NextCorrupt ==
    \/ Next
    \/ \E s \in SubIds : \E entry \in {InvalidJson, InvalidShape} :
          CorruptEntry(s, entry)

\* The cache may hold entries that do not deserialize into a Subscription.
SpecCorrupt == Init /\ [][NextCorrupt]_vars

NextWriteFails ==
    \/ Next
    \/ \E w \in Workers : SetProcessingFails(w)
    \/ \E w \in Workers : WriteSuccessFails(w)
    \/ \E w \in Workers : LogAttemptFails(w)
    \/ \E w \in Workers : WriteFailureFails(w)

\* Any write of the worker to the store may fail.
SpecWriteFails == Init /\ [][NextWriteFails]_vars

NextReadFails ==
    \/ Next
    \/ \E w \in Workers : GetDeliveryFails(w)
    \/ \E w \in Workers : GetSubscriptionFails(w)

\* Any read of the worker from the store may fail.
SpecReadFails == Init /\ [][NextReadFails]_vars

NextSecret ==
    \/ \E s \in SubIds : \E h \in HeadersFor("object") :
          IngestStart(s, h, "object")
    \/ IngestInsert
    \/ IngestEnqueue
    \/ \E s \in SubIds : \E secret_key \in NewSecrets :
          UpdateSecret(s, secret_key)
    \/ UpdateInvalidate
    \/ \E w \in Workers : AttemptStep(w)

\* Callers send a JSON object with any signature header while the secret of
\* the subscription is set, changed and removed and deliveries are attempted.
SpecSecret == InitIngest /\ [][NextSecret]_vars

NextBackoff == RetryCountdown

NextAttempt == LogExchange

\* The attempt row as a function of what the HTTP request ended in.
SpecAttempt == InitAttempt /\ [][NextAttempt]_vars

\* The retry delay as a function of the retry counter and the jitter sample.
SpecBackoff == InitBackoff /\ [][NextBackoff]_vars

\* ------------------------------------------------------ claim vocabulary

TerminalStatuses == {"success", "failed"}

RowCount(d) == BagCardinality(attempts[d])
AttemptNumbers(d) == {r.attempt_number : r \in BagToSet(attempts[d])}

\* Copies of messages for delivery d waiting in the broker.
MessagesFor(d) ==
    LET RECURSIVE Sum(_)
        Sum(n) == IF n < 0 THEN 0
                  ELSE queue[[delivery_id |-> d, retries |-> n]] + Sum(n - 1)
    IN Sum(MAX_RETRIES + 1)

\* Workers executing deliver_webhook for delivery d.
Executing(d) == {w \in Workers : worker[w].pc # "idle" /\ worker[w].delivery_id = d}

\* Ingest has answered 202 for delivery d.
Accepted(d) == d \in DOMAIN deliveries /\ answered[d] = 202

\* --------------------------------------------------------------- claims

\* C1. With every message executed by one worker at a time, once the status
\* of a delivery is success or failed no step changes it.
C1_TerminalStatusIsFinal ==
    [][\A d \in DOMAIN deliveries :
          deliveries[d].status \in TerminalStatuses
              => deliveries'[d].status = deliveries[d].status]_vars

\* C1 witness: a terminal status has been written and the execution that
\* wrote it still has steps to take.
C1_Witness ==
    \E d \in DOMAIN deliveries : \E w \in Executing(d) :
        /\ deliveries[d].status \in TerminalStatuses
        /\ worker[w].pc \in {"log_attempt", "autoretry"}

\* C2. When two executions of one delivery overlap, no step of an execution
\* changes a status that is already success or failed.
C2_OverlapKeepsTerminalStatus ==
    [][\A d \in DOMAIN deliveries : \A w \in Workers :
          (/\ deliveries[d].status \in TerminalStatuses
           /\ worker[w].delivery_id = d
           /\ worker'[w] # worker[w])
              => deliveries'[d].status = deliveries[d].status]_vars

\* C3. A task that finds its delivery in status success or failed ends at
\* once: no HTTP request, no attempt row, no status or last_attempt_at write,
\* no cache write, no message sent.
C3_TerminalReplayHasNoEffect ==
    [][\A w \in Workers :
          (/\ worker[w].pc = "get_delivery"
           /\ worker'[w] # worker[w]
           /\ worker[w].delivery_id \in DOMAIN deliveries
           /\ deliveries[worker[w].delivery_id].status \in TerminalStatuses)
              => /\ worker'[w] = Idle
                 /\ UNCHANGED <<deliveries, attempts, cache, queue, sent,
                                procWrites, subscriptions>>]_vars

\* C3 witness: a message has been handed to a worker for a delivery that is
\* already terminal.
C3_Witness ==
    \E w \in Workers :
        /\ worker[w].pc = "get_delivery"
        /\ worker[w].delivery_id \in DOMAIN deliveries
        /\ deliveries[worker[w].delivery_id].status \in TerminalStatuses

\* C4. Every accepted delivery eventually reaches success or failed.  Nothing
\* moves a delivery that has no message waiting and no worker executing it,
\* so the claim requires every accepted delivery at rest to be terminal.
C4_AcceptedDeliveryAtRestIsTerminal ==
    \A d \in DOMAIN deliveries :
        (Accepted(d) /\ MessagesFor(d) = 0 /\ Executing(d) = {})
            => deliveries[d].status \in TerminalStatuses

\* C5. Once no worker executes a delivery: in failed_attempt exactly one retry
\* message is scheduled, in success or failed none is.
C5_TerminalIffNothingScheduled ==
    \A d \in DOMAIN deliveries :
        Executing(d) = {} =>
            /\ deliveries[d].status = "failed_attempt" => MessagesFor(d) = 1
            /\ deliveries[d].status \in TerminalStatuses => MessagesFor(d) = 0

\* Attempt rows ever inserted for delivery d: those in the table and those
\* the sweeper has deleted.
InsertedCount(d) == RowCount(d) + removed[d]

\* Every attempt number of delivery d is carried by exactly one row.
NoDuplicateNumbers(d) == Cardinality(AttemptNumbers(d)) = RowCount(d)

C7_SuccessMeansLastRowSucceeded ==
    \A d \in DOMAIN deliveries :
        deliveries[d].status = "success"
            => /\ \E r \in BagToSet(attempts[d]) : r.outcome = "success"
               /\ \A r \in BagToSet(attempts[d]) :
                    r.outcome = "success"
                        <=> \A q \in BagToSet(attempts[d]) :
                                q.attempt_number <= r.attempt_number

C9_RowsEqualProcessingWrites ==
    \A d \in DeliveryIds :
        Executing(d) = {} => RowCount(d) = procWrites[d]

\* C9 (amended). Once no worker executes a delivery, the number of attempt
\* rows inserted for it (in the table, or deleted since by the sweeper)
\* equals the number of writes of status processing.
C9_InsertedRowsEqualProcessingWrites ==
    \A d \in DeliveryIds :
        Executing(d) = {} => InsertedCount(d) = procWrites[d]

\* C9 witness: a retry has been executed to its end.
C9_Witness ==
    \E d \in DeliveryIds :
        Executing(d) = {} /\ procWrites[d] >= 2 /\ InsertedCount(d) >= 2

\* C10. No delivery has more than MAX_RETRIES + 1 HTTP attempts or attempt rows.
C10_AttemptsBounded ==
    \A d \in DeliveryIds :
        /\ sent[d] <= MAX_RETRIES + 1
        /\ InsertedCount(d) <= MAX_RETRIES + 1

\* C10 witness: a delivery has used all its attempts.
C10_Witness ==
    \E d \in DeliveryIds :
        sent[d] = MAX_RETRIES + 1 /\ RowCount(d) = MAX_RETRIES + 1

\* C11. A task that ends after a failed attempt with attempt_number n (its
\* retry counter + 1) has written failed and sends nothing when
\* n > MAX_RETRIES; otherwise it has written failed_attempt and sends exactly
\* one retry message for the same delivery with the counter incremented by one.
C11_FailedAttemptRetriesOrFails ==
    [][\A w \in Workers :
          (worker[w].pc = "autoretry" /\ worker'[w] # worker[w])
              => LET d == worker[w].delivery_id
                     attempt_count == worker[w].retries IN
                 IF attempt_count + 1 > MAX_RETRIES
                 THEN /\ deliveries[d].status = "failed"
                      /\ queue' = queue
                 ELSE /\ deliveries[d].status = "failed_attempt"
                      /\ queue' = [queue EXCEPT
                                     ![[delivery_id |-> d,
                                        retries |-> attempt_count + 1]] = @ + 1]
      ]_vars

\* ------------------------------------------------ claim vocabulary: ingest

\* The subscription row has a secret_key (the column is not null).
SecretSet(subscription) ==
    subscription # NoSub /\ subscription.secret_key # NoSecret

\* The subscription row has a secret_key that is not the empty string.
SecretNotEmpty(subscription) ==
    SecretSet(subscription) /\ subscription.secret_key # ""

\* The header is sha256=<hex> (the method in any case) and <hex> is the
\* HMAC-SHA256 of the body under the secret.
CorrectSignature(secret, request_body, signature_header) ==
    /\ signature_header.form = "pair"
    /\ signature_header.method \in {"sha256", "SHA256"}
    /\ signature_header.digest =
           [key |-> secret, body |-> request_body, ascii |-> TRUE]

\* This step is the arrival of an ingest request (api' holds the request).
IngestArrives ==
    api.pc = "idle" /\ api' # api /\ api'.endpoint = "ingest"

\* The subscription an arriving request addresses, as stored.
Addressed == subscriptions[api'.subscription_id]

\* C12 (as stated). For a subscription with a secret_key set, a request whose
\* signature header is absent, malformed or not the HMAC-SHA256 of the body
\* under that secret ends at once: no delivery row, no message.
C12_BadSignatureCreatesNothing ==
    [][(/\ IngestArrives
        /\ SecretSet(Addressed)
        /\ ~CorrectSignature(Addressed.secret_key, api'.body, api'.header))
           => /\ api'.pc = "idle"
              /\ UNCHANGED <<deliveries, queue>>]_vars

\* C12 (amended). The same for a subscription whose secret_key is a string
\* that is not empty; a secret_key stored as the empty string is treated as
\* no secret, and every request to such a subscription passes.
C12_BadSignatureCreatesNothingIfSecretNotEmpty ==
    [][(/\ IngestArrives
        /\ SecretNotEmpty(Addressed)
        /\ ~CorrectSignature(Addressed.secret_key, api'.body, api'.header))
           => /\ api'.pc = "idle"
              /\ UNCHANGED <<deliveries, queue>>]_vars

\* C12 witness: a body that parses, signed with another key, has been refused
\* by a subscription with a secret.
C12_Witness ==
    /\ api.pc = "idle" /\ api.endpoint = "ingest" /\ api.response = 401
    /\ SecretNotEmpty(subscriptions[api.subscription_id])
    /\ api.body = "object"
    /\ api.header = SignedHeader("sha256", "k2", "object")
    /\ deliveries = << >>

\* C13. For a subscription that requires a signature, a request with a wrong
\* signature and a body that is not valid JSON is answered 401; and 400 is
\* only answered to requests whose signature check passed.
C13_WrongSignatureIs401BeforeParsing ==
    [][IngestArrives =>
          LET required == SecretNotEmpty(Addressed)
              correct == CorrectSignature(Addressed.secret_key, api'.body,
                                          api'.header) IN
          /\ (required /\ ~correct /\ api'.body = "invalid")
                 => api'.response = 401
          /\ api'.response = 400
                 => Addressed # NoSub /\ (~required \/ correct)]_vars

\* C14. An ingest request answered 404 or 400 ends in the step it arrives in
\* and leaves the deliveries table, the attempts table, the cache and the
\* queue as they were.
C14_NotFoundAndBadRequestChangeNothing ==
    [][(api' # api /\ api'.endpoint = "ingest" /\ api'.response \in {404, 400})
          => /\ api.pc = "idle"
             /\ UNCHANGED <<deliveries, attempts, cache, queue>>]_vars

\* C14 witness: a request with a body that is not JSON has been answered 400
\* while a delivery, attempt rows and a cached subscription exist.
C14_Witness ==
    /\ api.pc = "idle" /\ api.endpoint = "ingest" /\ api.response = 400
    /\ api.body = "invalid"
    /\ Len(deliveries) > 0
    /\ \E d \in DeliveryIds : RowCount(d) > 0
    /\ \E s \in SubIds : cache[s] # NoSub

\* The one change of the queue that adds a single copy of message m.
OneMoreMessage(m) == queue' = [queue EXCEPT ![m] = @ + 1]

\* C15. Ingest answers 202 only in the step that enqueues exactly one message
\* carrying the id of the row this request inserted; that row was inserted
\* alone, with status pending and no last_attempt_at, for the addressed
\* subscription, in an earlier step (it is still untouched when the message
\* is enqueued), and every message in the queue refers to a stored row.
C15_AcceptedMeansRowThenMessage ==
    [][/\ (api' # api /\ api'.endpoint = "ingest" /\ api'.response = 202)
            => /\ api.pc = "enqueue"
               /\ api.delivery_id \in DOMAIN deliveries
               /\ deliveries[api.delivery_id].subscription_id
                      = api.subscription_id
               /\ deliveries[api.delivery_id].status = "pending"
               /\ deliveries[api.delivery_id].last_attempt_at = NoTime
               /\ MessagesFor(api.delivery_id) = 0
               /\ Executing(api.delivery_id) = {}
               /\ OneMoreMessage([delivery_id |-> api.delivery_id,
                                  retries |-> 0])
               /\ deliveries' = deliveries
       /\ (api.pc = "insert" /\ api' # api)
            => /\ Len(deliveries') = Len(deliveries) + 1
               /\ api'.delivery_id = Len(deliveries')
               /\ \A i \in DOMAIN deliveries : deliveries'[i] = deliveries[i]
               /\ deliveries'[Len(deliveries')].subscription_id
                      = api.subscription_id
               /\ deliveries'[Len(deliveries')].status = "pending"
               /\ deliveries'[Len(deliveries')].last_attempt_at = NoTime
               /\ queue' = queue
       /\ Len(deliveries') # Len(deliveries) => api.pc = "insert"
       /\ \A m \in Messages :
             queue'[m] > 0 => m.delivery_id \in DOMAIN deliveries'
      ]_vars

\* C15 witness: a request has been answered 202 and its message waits for a
\* worker, the row still pending.
C15_Witness ==
    /\ api.pc = "idle" /\ api.endpoint = "ingest" /\ api.response = 202
    /\ queue[[delivery_id |-> api.delivery_id, retries |-> 0]] = 1
    /\ deliveries[api.delivery_id].status = "pending"

\* C16. A delivery whose row was inserted and whose enqueue failed has been
\* answered 500; its row stays pending with no last_attempt_at, has no message
\* and no worker, and no attempt is ever made for it.
C16_FailedEnqueueLeavesPendingForever ==
    \A d \in DOMAIN deliveries :
        (answered[d] # 202 /\ ~(api.pc = "enqueue" /\ api.delivery_id = d))
            => /\ answered[d] = 500
               /\ deliveries[d].status = "pending"
               /\ deliveries[d].last_attempt_at = NoTime
               /\ MessagesFor(d) = 0
               /\ Executing(d) = {}
               /\ RowCount(d) = 0 /\ removed[d] = 0
               /\ sent[d] = 0 /\ procWrites[d] = 0

\* C16 witness: the enqueue of a delivery has failed, and the workers and the
\* API have gone on (the subscription was deleted since).
C16_Witness ==
    \E d \in DOMAIN deliveries :
        /\ answered[d] = 500
        /\ api.pc = "idle" /\ api.endpoint = "delete" /\ api.response = 204

\* The payload ingest is to store for a body: {} for no bytes, else the value.
StoredFor(raw_body) == IF raw_body = "empty" THEN "{}" ELSE raw_body

\* C17. With the store and the queue working, a request to an existing
\* subscription that passes signature verification with an empty body, a JSON
\* object or a JSON array goes on to insert one row holding that payload, then
\* enqueues one message for it and is answered 202.
C17_ObjectOrArrayIsAccepted ==
    [][/\ (/\ IngestArrives
           /\ Addressed # NoSub
           /\ \/ ~SecretNotEmpty(Addressed)
              \/ CorrectSignature(Addressed.secret_key, api'.body,
                                  api'.header)
           /\ api'.body \in {"empty", "object", "array"})
            => api'.pc = "insert"
       /\ (api.pc = "insert" /\ api' # api)
            => /\ Len(deliveries') = Len(deliveries) + 1
               /\ deliveries'[Len(deliveries')].payload = StoredFor(api.body)
               /\ api'.pc = "enqueue"
       /\ (api.pc = "enqueue" /\ api' # api)
            => /\ api'.response = 202
               /\ OneMoreMessage([delivery_id |-> api.delivery_id,
                                  retries |-> 0])
      ]_vars

\* C18. A worker that finds no subscription for its delivery ends the task in
\* that step: status failed with last_attempt_at set, one more attempt row
\* with outcome failed and an error_message naming the missing subscription,
\* no HTTP request and no retry message.
C18_MissingSubscriptionFailsWithAttemptRow ==
    [][\A w \in Workers :
          (worker[w].pc = "mark_missing" /\ worker'[w] # worker[w])
              => LET d == worker[w].delivery_id IN
                 /\ deliveries'[d].status = "failed"
                 /\ deliveries'[d].last_attempt_at # NoTime
                 /\ \E r \in BagToSet(attempts'[d]) :
                       /\ r.outcome = "failed"
                       /\ r.error_message = "Subscription not found"
                       /\ attempts'[d] = attempts[d] (+) SetToBag({r})
                 /\ sent' = sent
                 /\ queue' = queue
                 /\ worker'[w].pc = "idle"]_vars

\* ------------------------------------------------- claim vocabulary: cache

\* The store row of s was updated or deleted and the endpoint has not made
\* its invalidation call yet.
Mutating(s) == api.pc = "invalidate" /\ api.subscription_id = s

\* C19. Once an update or delete of a subscription has made its invalidation
\* call, a cache get returns a miss or the row the store now holds, never a
\* copy from before the mutation; and an update or delete answers success
\* only in the step that makes this call, which leaves no copy in the cache.
C19_NoStaleHitAfterInvalidation ==
    [][/\ \A w \in Workers :
             (/\ worker[w].pc = "cache_get"
              /\ worker'[w] # worker[w]
              /\ ~Mutating(SubscriptionOf(worker[w].delivery_id)))
                 => worker'[w].subscription
                       \in {NoSub,
                            subscriptions[SubscriptionOf(worker[w].delivery_id)]}
       /\ (/\ api' # api
           /\ api'.endpoint \in {"update", "delete"}
           /\ api'.response \in {200, 204})
            => /\ api.pc = "invalidate"
               /\ cache'[api.subscription_id] = NoSub
      ]_vars

\* C20. Once an update or delete of a subscription has returned, the cache
\* holds no copy of it that differs from the store (none at all after a
\* delete), whatever read-through of a worker overlapped the request; so an
\* attempt that starts afterwards cannot take a pre-mutation copy from it.
C20_NoStaleCopyOnceMutationReturned ==
    \A s \in SubIds :
        ~Mutating(s) => cache[s] \in {NoSub, subscriptions[s]}

\* ------------------------------------------- claim vocabulary: cache outage

\* The task of worker w has a delivery to attempt: the row exists, validates
\* and is not terminal.
HasWork(w) ==
    /\ worker[w].delivery_id \in DOMAIN deliveries
    /\ Validates(deliveries[worker[w].delivery_id].payload)
    /\ deliveries[worker[w].delivery_id].status \notin TerminalStatuses

\* C21. While the cache server does not answer, whether or not it answered
\* when the process started: a task with a delivery to attempt goes on to
\* resolve the subscription, its cache get is a miss, it then reads the
\* subscription from the store, and its cache set changes nothing; none of
\* these steps ends the task.
C21_CacheOutageDegradesToStoreRead ==
    [][\A w \in Workers :
          (~redis_up /\ worker'[w] # worker[w]) =>
              /\ (worker[w].pc = "get_delivery" /\ HasWork(w))
                     => worker'[w].pc = "cache_get"
              /\ worker[w].pc = "cache_get"
                     => /\ worker'[w].subscription = NoSub
                        /\ worker'[w].pc = "get_subscription"
              /\ worker[w].pc = "get_subscription"
                     => worker'[w].subscription
                           = subscriptions[SubscriptionOf(worker[w].delivery_id)]
              /\ worker[w].pc = "cache_set"
                     => cache' = cache /\ worker'[w].pc = "set_processing"
      ]_vars

\* ---------------------------------------------- claim vocabulary: backoff

BASE == 10
CAP == 900

\* The nominal delay after failed attempt n (1-based).
Nominal(n) == IF BASE * (2 ^ (n - 1)) < CAP THEN BASE * (2 ^ (n - 1)) ELSE CAP

\* The attempt that failed (1-based) when the retry delay was computed.
FailedAttempt == backoff.retries + 1

\* C22. Whatever the failed attempt and the jitter sample, the delay given
\* to the queue for the next dispatch is at most CAP (and not negative).
C22_DelayNeverExceedsCap ==
    backoff.countdown # NoCountdown
        => backoff.countdown >= 0 /\ backoff.countdown <= CAP

\* C22 witness: a delay of CAP itself has been drawn, for an attempt whose
\* uncapped interval is above CAP.
C22_Witness ==
    /\ backoff.countdown = CAP
    /\ BASE * (2 ^ backoff.retries) > CAP

\* C23 (as stated). The nominal delay after failed attempt n is
\* min(CAP, BASE * 2^(n-1)), and the delay used lies in
\* [0.5 * nominal, 1.5 * nominal).
C23_DelayWithinHalfOfNominal ==
    backoff.countdown # NoCountdown
        => /\ backoff.interval = Nominal(FailedAttempt)
           /\ 2 * backoff.countdown >= Nominal(FailedAttempt)
           /\ 2 * backoff.countdown < 3 * Nominal(FailedAttempt)

\* C23 (amended). The nominal delay after failed attempt n is
\* min(CAP, BASE * 2^(n-1)), and the delay used is a whole number of seconds
\* in [0, nominal].
C23_DelayBetweenZeroAndNominal ==
    backoff.countdown # NoCountdown
        => /\ backoff.interval = Nominal(FailedAttempt)
           /\ backoff.countdown \in 0..Nominal(FailedAttempt)

\* C23 witness: after the third failed attempt (nominal 40 s) a delay below
\* half of the nominal has been drawn.
C23_Witness ==
    /\ FailedAttempt = 3
    /\ backoff.interval = 40
    /\ backoff.countdown = 7

\* ------------------------------------------- claim vocabulary: the verifier

\* What verify_signature gives for the request that arrives in this step.
Verdict ==
    verify_signature(Addressed.secret_key, api'.body, api'.header)

\* C24. For every request to a stored subscription, verify_signature returns
\* true exactly when the secret is absent or the header is sha256=<hex> (the
\* method in any case) with <hex> the HMAC-SHA256 of the body under the
\* secret; with a secret present it returns false for an absent header, a
\* header without "=", another method or another digest.
C24_VerifySignatureTruthTable ==
    [][(IngestArrives /\ Addressed # NoSub) =>
          LET secret == Addressed.secret_key
              correct == CorrectSignature(secret, api'.body, api'.header) IN
          /\ Verdict = "true" <=> (secret = NoSecret \/ correct)
          /\ (secret # NoSecret /\ ~correct) => Verdict = "false"]_vars

RowRemoved(d) ==
    \E r \in BagToSet(attempts[d]) :
        CopiesIn(r, attempts'[d]) < CopiesIn(r, attempts[d])

\* This step is a run of the sweeper that reported a count or removed rows.
SweeperRan ==
    cleanup' # cleanup \/ \E d \in DeliveryIds : RowRemoved(d)

\* Rows of delivery d with a timestamp earlier than t.
OlderThan(d, t) == {r \in BagToSet(attempts[d]) : r.timestamp < t}

\* Number of rows of delivery d with a timestamp earlier than t.
OlderCount(d, t) ==
    LET RECURSIVE Count(_)
        Count(S) == IF S = {} THEN 0
                    ELSE LET r == CHOOSE x \in S : TRUE IN
                         CopiesIn(r, attempts[d]) + Count(S \ {r})
    IN Count(OlderThan(d, t))

\* C26. A run of the sweeper with a retention above zero removes exactly the
\* attempt rows with a timestamp earlier than now minus the retention, and
\* reports their number; with a retention of zero or less it removes nothing;
\* in both cases the deliveries (their status too) and the subscriptions stay
\* as they were, and nothing but a run of the sweeper removes an attempt row.
C26_SweepRemovesExactlyOldRows ==
    [][/\ SweeperRan =>
            LET hours == cleanup.LOG_RETENTION_HOURS IN
            /\ UNCHANGED <<deliveries, subscriptions, cache, queue>>
            /\ hours > 0 =>
                  /\ \A d \in DeliveryIds :
                        /\ BagToSet(attempts'[d]) =
                              BagToSet(attempts[d]) \ OlderThan(d, now - hours)
                        /\ \A r \in BagToSet(attempts'[d]) :
                              CopiesIn(r, attempts'[d]) =
                                  CopiesIn(r, attempts[d])
                  /\ cleanup'.deleted_count =
                        SumTo([d \in DeliveryIds |->
                                  OlderCount(d, now - hours)], MaxDeliveries)
                  /\ cleanup'.deleted_count =
                        SumTo([d \in DeliveryIds |->
                                  BagCardinality(attempts[d])
                                  - BagCardinality(attempts'[d])],
                              MaxDeliveries)
            /\ hours <= 0 => attempts' = attempts /\ cleanup' = cleanup
       /\ \A d \in DeliveryIds :
             RowRemoved(d) => /\ cleanup.LOG_RETENTION_HOURS > 0
                              /\ cleanup'.deleted_count > 0
      ]_vars

\* C26 witness: a run has deleted a row and reported it, and left a row
\* whose timestamp is the cutoff itself.
C26_Witness ==
    /\ cleanup.LOG_RETENTION_HOURS > 0
    /\ cleanup.deleted_count = 1
    /\ \E d \in DeliveryIds :
         /\ removed[d] = 1
         /\ \E r \in BagToSet(attempts[d]) :
               r.timestamp = now - cleanup.LOG_RETENTION_HOURS

\* C26 witness of the disabled case: time has passed, attempt rows are older
\* than any positive retention would keep, and every row is still there.
C26_WitnessDisabled ==
    /\ cleanup.LOG_RETENTION_HOURS <= 0
    /\ now = MaxTime
    /\ \E d \in DeliveryIds :
         /\ removed[d] = 0
         /\ \E r \in BagToSet(attempts[d]) : r.timestamp = 0

\* ------------------------------------------------ claim vocabulary: crash

\* Nothing is left that could move delivery d: no message waits for it and no
\* worker executes it.
AtRest(d) == MessagesFor(d) = 0 /\ Executing(d) = {}

\* C27. A delivery whose worker was killed during the attempt is attempted
\* again: the message is handed out once more.  Nothing moves an accepted
\* delivery that has no message and no worker, so the claim requires that no
\* accepted delivery is ever at rest in status pending or processing.
C27_CrashedAttemptIsRedelivered ==
    \A d \in DOMAIN deliveries :
        (Accepted(d) /\ deliveries[d].status \in {"pending", "processing"})
            => ~AtRest(d)

\* ---------------------------------------- claim vocabulary: last_attempt_at

\* The start time of the attempt worker w is making: the time it took before
\* the HTTP request, or the present time when it has not got that far.
StartTime(w) == IF worker[w].now # NoTime THEN worker[w].now ELSE now

\* This step of worker w writes a status to its delivery.
WritesStatus(w) ==
    /\ worker'[w] # worker[w]
    /\ \/ worker[w].pc \in {"mark_missing", "write_success", "write_failure"}
       \/ /\ worker[w].pc = "set_processing"
          /\ procWrites' # procWrites

\* C28 (first part). Every status write of a worker sets last_attempt_at to
\* the start time of its attempt.
C28_StatusWriteSetsLastAttemptAt ==
    [][\A w \in Workers :
          WritesStatus(w)
             => deliveries'[worker[w].delivery_id].last_attempt_at
                   = StartTime(w)]_vars

\* C28 (second part). No step moves the last_attempt_at of a delivery
\* backwards or back to null, however the executions of the delivery
\* interleave.
C28_LastAttemptAtNeverMovesBack ==
    [][\A d \in DOMAIN deliveries :
          /\ deliveries'[d].last_attempt_at >= deliveries[d].last_attempt_at
          /\ deliveries[d].last_attempt_at # NoTime
                => deliveries'[d].last_attempt_at # NoTime]_vars

\* --------------------------------------- claim vocabulary: single message

\* Messages for delivery d that wait in the broker or are being executed.
InFlight(d) == MessagesFor(d) + Cardinality(Executing(d))

\* C29. With every message executed once and no worker killed, a delivery
\* never has more than one message waiting or being executed; a message is
\* added for it only by ingest, once, when it has none, and by the task that
\* ends a failed attempt that is not the last one, which is then the only
\* one in flight and sends one message, carrying the next retry counter.
C29_AtMostOneMessageInFlight ==
    [][\A d \in DeliveryIds :
          /\ InFlight(d)' <= 1
          /\ MessagesFor(d)' > MessagesFor(d) =>
                /\ MessagesFor(d) = 0
                /\ MessagesFor(d)' = 1
                /\ \/ /\ api.pc = "enqueue" /\ api.delivery_id = d
                      /\ api'.response = 202
                      /\ answered[d] # 202
                      /\ Executing(d) = {}
                      /\ sent[d] = 0
                      /\ queue'[[delivery_id |-> d, retries |-> 0]] = 1
                   \/ \E w \in Workers :
                      /\ Executing(d) = {w}
                      /\ worker[w].pc = "autoretry"
                      /\ worker'[w].pc = "idle"
                      /\ worker[w].outcome = "failed"
                      /\ AttemptNumber(worker[w].retries) <= MAX_RETRIES
                      /\ deliveries[d].status = "failed_attempt"
                      /\ queue'[[delivery_id |-> d,
                                 retries |-> worker[w].retries + 1]] = 1
      ]_vars

\* C29 witness: the second failed attempt has ended and its retry message is
\* the only message of the delivery.
C29_Witness ==
    \E d \in DOMAIN deliveries :
        /\ deliveries[d].status = "failed_attempt"
        /\ Executing(d) = {}
        /\ sent[d] = 2
        /\ queue[[delivery_id |-> d, retries |-> 2]] = 1
        /\ InFlight(d) = 1

\* ------------------------------------------ claim vocabulary: retry enqueue

\* The attempt worker w has made failed with an exception Celery retries for,
\* and it was not the last attempt allowed.
RetryDue(w) ==
    /\ worker[w].response \in {"non2xx", "request_error"}
    /\ AttemptNumber(worker[w].retries) <= MAX_RETRIES

\* The attempt row of the attempt worker w has made is in the table.
RowPersisted(w) ==
    \E r \in BagToSet(attempts[worker[w].delivery_id]) :
        /\ r.attempt_number = AttemptNumber(worker[w].retries)
        /\ r.outcome = "failed"

\* A message with a retry counter above zero is added to the queue.
RetryEnqueued ==
    \E m \in Messages : m.retries > 0 /\ queue'[m] > queue[m]

\* C30. A retry message is enqueued only by the last step of a task whose
\* failed attempt already has its attempt row in the table and its status
\* failed_attempt (with the time of the attempt) written; when that enqueue
\* fails, the row is in the table, the status is failed_attempt, and the
\* step changes neither; and nothing changes the row or the status of a
\* delivery that is left in failed_attempt with no message and no worker.
C30_RetryEnqueuedAfterAttemptPersisted ==
    [][/\ RetryEnqueued =>
            \E w \in Workers :
               /\ worker[w].pc = "autoretry" /\ worker'[w].pc = "idle"
               /\ RetryDue(w)
               /\ RowPersisted(w)
               /\ deliveries[worker[w].delivery_id].status = "failed_attempt"
               /\ deliveries[worker[w].delivery_id].last_attempt_at
                      = worker[w].now
               /\ OneMoreMessage([delivery_id |-> worker[w].delivery_id,
                                  retries |-> worker[w].retries + 1])
       /\ \A w \in Workers :
             (/\ worker[w].pc = "autoretry" /\ worker'[w] # worker[w]
              /\ RetryDue(w)
              /\ queue' = queue)
                => /\ RowPersisted(w)
                   /\ deliveries[worker[w].delivery_id].status
                          = "failed_attempt"
                   /\ UNCHANGED <<deliveries, attempts>>
       /\ \A d \in DOMAIN deliveries :
             (deliveries[d].status = "failed_attempt" /\ AtRest(d))
                => /\ deliveries'[d] = deliveries[d]
                   /\ attempts'[d] = attempts[d]
                   /\ MessagesFor(d)' = 0
      ]_vars

\* C30 witness: the retry enqueue after the second failed attempt has failed;
\* both attempt rows are there, the status is failed_attempt, and the
\* delivery has no message and no worker.
C30_Witness ==
    \E d \in DOMAIN deliveries :
        /\ deliveries[d].status = "failed_attempt"
        /\ AtRest(d)
        /\ AttemptNumbers(d) = {1, 2}
        /\ \A r \in BagToSet(attempts[d]) :
              r.error_message # "Unexpected error"

\* ------------------------------------------- claim vocabulary: processing

FinalStatuses == {"success", "failed_attempt", "failed"}

\* Worker w is past its write of processing and has not written the status its
\* attempt ends in.
OwesFinalWrite(w) ==
    \/ worker[w].pc \in {"http_post", "write_success", "write_failure"}
    \/ worker[w].pc = "log_attempt" /\ worker[w].outcome = "failed"

\* Worker w has written the status its attempt ended in and is still running.
HasWrittenFinal(w) ==
    \/ worker[w].pc = "autoretry"
    \/ worker[w].pc = "log_attempt" /\ worker[w].outcome = "success"

\* C31. With every message executed once: while a delivery is in processing
\* exactly one worker executes it, past its write of processing and still to
\* write success, failed_attempt or failed; that execution writes one of the
\* three exactly once and writes no status afterwards; it never ends, by
\* returning or by raising, with the delivery in processing; and processing
\* is written again only over pending or failed_attempt.
C31_ProcessingIsFollowedByOneFinalWrite ==
    [][\A d \in DOMAIN deliveries :
          /\ deliveries[d].status = "processing"
                => \E w \in Workers :
                      Executing(d) = {w} /\ OwesFinalWrite(w)
          /\ procWrites'[d] > procWrites[d]
                => deliveries[d].status \in {"pending", "failed_attempt"}
          /\ \A w \in Executing(d) :
                /\ (OwesFinalWrite(w) /\ worker'[w] # worker[w])
                      => /\ worker'[w].pc # "idle"
                         /\ deliveries[d].status = "processing"
                         /\ deliveries'[d].status \in
                                {"processing"} \cup FinalStatuses
                /\ (worker[w].pc \in {"write_success", "write_failure"}
                       /\ worker'[w] # worker[w])
                      => /\ deliveries'[d].status \in FinalStatuses
                         /\ HasWrittenFinal(w)'
                /\ (HasWrittenFinal(w) /\ worker'[w] # worker[w])
                      => /\ deliveries'[d] = deliveries[d]
                         /\ deliveries[d].status \in FinalStatuses
                         /\ worker'[w].pc = "idle"
      ]_vars

\* C31 witness: an execution that wrote processing has ended by raising an
\* exception Celery does not retry for, and left failed_attempt.
C31_Witness ==
    \E d \in DOMAIN deliveries :
        /\ procWrites[d] = 1
        /\ AtRest(d)
        /\ deliveries[d].status = "failed_attempt"
        /\ \E r \in BagToSet(attempts[d]) :
              r.error_message = "Unexpected error"

\* ------------------------------------- claim vocabulary: the state machine

\* The edges of the delivery state machine.
Edges == {<<"pending", "processing">>, <<"failed_attempt", "processing">>,
          <<"processing", "success">>, <<"processing", "failed_attempt">>,
          <<"processing", "failed">>}

\* The subscription of delivery d has no row in the store.
SubscriptionMissing(d) == subscriptions[SubscriptionOf(d)] = NoSub

\* C32. With every message executed once: every change of a delivery's status
\* follows an edge of the state machine, or is the direct move to failed of a
\* delivery whose subscription is missing; processing is written only by a
\* worker that read another status, and that write leaves last_attempt_at as
\* it was.
C32_StatusFollowsStateMachine ==
    [][\A d \in DOMAIN deliveries :
          /\ deliveries'[d].status # deliveries[d].status
                => \/ <<deliveries[d].status, deliveries'[d].status>> \in Edges
                   \/ /\ deliveries'[d].status = "failed"
                      /\ SubscriptionMissing(d)
          /\ procWrites'[d] > procWrites[d]
                => /\ \E w \in Executing(d) :
                         /\ worker[w].pc = "set_processing"
                         /\ worker'[w].pc = "http_post"
                         /\ worker[w].status # "processing"
                   /\ deliveries'[d].status = "processing"
                   /\ deliveries'[d].last_attempt_at
                         = deliveries[d].last_attempt_at
      ]_vars

\* C32 witness: a delivery whose first attempt failed has been marked
\* processing again for its retry, with the time of the first attempt kept.
C32_Witness ==
    \E d \in DOMAIN deliveries :
        /\ procWrites[d] = 2
        /\ deliveries[d].status = "processing"
        /\ deliveries[d].last_attempt_at # NoTime

\* C32 witness of the direct move: a delivery whose subscription was deleted
\* has been marked failed without having been processing.
C32_WitnessMissing ==
    \E d \in DOMAIN deliveries :
        /\ procWrites[d] = 0
        /\ deliveries[d].status = "failed"

\* ------------------------------------------ claim vocabulary: attempt rows

\* Workers that have sent the HTTP request of delivery d and have not yet
\* inserted its attempt row.
Unlogged(d) ==
    {w \in Executing(d) : worker[w].pc \in {"write_success", "log_attempt"}}

\* Every HTTP request of d whose execution is past the finally block has one
\* row.
OneRowPerRequest(d) == RowCount(d) = sent[d] - Cardinality(Unlogged(d))

\* C33. With every message executed once and store calls answering: every
\* execution that sent an HTTP request inserts exactly one attempt row,
\* whatever the request ended in, with attempt_number = retries + 1 for the
\* retry counter of its message, and no step of a worker removes or changes
\* a row there is.
C33_OneAttemptRowPerHttpRequest ==
    [][\A d \in DOMAIN deliveries :
          /\ OneRowPerRequest(d)
          /\ OneRowPerRequest(d)'
          /\ attempts[d] \sqsubseteq attempts'[d]
          /\ \A w \in Unlogged(d) :
                (worker[w].pc = "log_attempt" /\ worker'[w] # worker[w])
                   => \E r \in BagToSet(attempts'[d]) :
                         /\ attempts'[d] = attempts[d] (+) SetToBag({r})
                         /\ r.attempt_number = worker[w].retries + 1
                         /\ r.outcome = worker[w].outcome
          /\ \A w \in Executing(d) :
                (worker'[w].pc = "idle" /\ sent[d] > 0
                   /\ worker[w].pc \notin {"get_delivery", "mark_missing"})
                   => \E r \in BagToSet(attempts'[d]) :
                         r.attempt_number = worker[w].retries + 1
      ]_vars

\* C33 witness: three executions of one delivery have each sent a request and
\* ended, the last one by an exception that is not retried, leaving rows 1, 2
\* and 3.
C33_Witness ==
    \E d \in DOMAIN deliveries :
        /\ AtRest(d)
        /\ sent[d] = 3
        /\ AttemptNumbers(d) = {1, 2, 3}
        /\ \E r \in BagToSet(attempts[d]) :
              r.attempt_number = 3 /\ r.error_message = "Unexpected error"

\* --------------------------------------- claim vocabulary: classification

\* The finally block has built the attempt row of the exchange.
Logged == exchange.attempt_log # NoLog

\* A response came back, with a status in 200..299 or with another one.
Received2xx ==
    exchange.result.kind = "response"
      /\ exchange.result.status_code \in 200..299
ReceivedOther ==
    exchange.result.kind = "response"
      /\ exchange.result.status_code \notin 200..299

GetsFromCache(w) ==
    /\ worker[w].pc = "cache_get"
    /\ worker'[w] # worker[w]
    /\ worker[w].cache = "client"
    /\ redis_up

\* The entry of subscription s does not deserialize into a Subscription.
Undeserializable(s) == cache[s] \in {InvalidJson, InvalidShape}

\* C35. A cache get of an absent key, of an entry that is not JSON and of an
\* entry whose JSON does not validate as a Subscription is a miss and does
\* not raise: the worker goes on to read the store; an entry that does not
\* deserialize is removed by the get.
C35_UndeserializableEntryIsMissAndEvicted ==
    [][\A w \in Workers :
          LET s == SubscriptionOf(worker[w].delivery_id) IN
          GetsFromCache(w) =>
            /\ (cache[s] = NoSub \/ Undeserializable(s))
                  => worker'[w].pc = "get_subscription"
            /\ Undeserializable(s) => cache'[s] = NoSub
      ]_vars

\* The part of C35 about entries that are not JSON.
C35_InvalidJsonIsMissAndEvicted ==
    [][\A w \in Workers :
          LET s == SubscriptionOf(worker[w].delivery_id) IN
          (GetsFromCache(w) /\ cache[s] \in {NoSub, InvalidJson})
             => /\ worker'[w].pc = "get_subscription"
                /\ cache'[s] = NoSub
      ]_vars

\* ------------------------------------------ claim vocabulary: store faults

\* Worker w, which has sent an HTTP request, ends its execution in this step.
EndsAfterRequest(w) ==
    /\ worker'[w].pc = "idle"
    /\ \/ worker[w].pc = "autoretry"
       \/ worker[w].pc = "log_attempt" /\ worker[w].outcome = "success"

\* The statuses that agree with an attempt row of the given outcome.
AgreeingStatuses(outcome) ==
    IF outcome = "success" THEN {"success"} ELSE {"failed_attempt", "failed"}

\* C36. When an execution that sent an HTTP request ends, the attempt row it
\* wrote is there, with the outcome of the request, and the status of the
\* delivery agrees with it, also when store writes of the execution failed.
C36_StatusAgreesWithAttemptRow ==
    [][\A d \in DOMAIN deliveries : \A w \in Executing(d) :
          EndsAfterRequest(w) =>
            /\ \E r \in BagToSet(attempts'[d]) :
                  /\ r.attempt_number = worker[w].retries + 1
                  /\ r.outcome = worker[w].outcome
            /\ deliveries'[d].status \in AgreeingStatuses(worker[w].outcome)
      ]_vars

\* C37. The worker writes failed without having sent an HTTP request only
\* for a delivery whose subscription has no row in the store, and it returns
\* right after reading the delivery, with no effect, only when the delivery
\* has no row or is terminal, also when store reads fail.
C37_FailedReadIsNotAbsence ==
    [][\A w \in Workers :
          LET d == worker[w].delivery_id IN
          /\ (worker[w].pc = "mark_missing" /\ worker'[w] # worker[w])
                => SubscriptionMissing(d)
          /\ (worker[w].pc = "get_delivery" /\ worker'[w].pc = "idle")
                => \/ d \notin DOMAIN deliveries
                   \/ deliveries[d].status \in TerminalStatuses
      ]_vars

\* ------------------------------------------ claim vocabulary: secret update

\* The arriving request passes the signature check and goes on to the insert.
PassesCheck == IngestArrives /\ api'.response = NoResponse

\* The arriving request carries no signature header.
Unsigned == api'.header.form = "absent"

\* The header of the arriving request is a correct signature of its body
\* under some key that is not the one stored.
SignedUnderOtherKeyOnly ==
    /\ \E k \in {"k1", "k2"} :
          CorrectSignature(k, api'.body, api'.header)
    /\ ~CorrectSignature(Addressed.secret_key, api'.body, api'.header)

\* The arriving request is correctly signed under the secret stored.
SignedUnderStoredKey ==
    CorrectSignature(Addressed.secret_key, api'.body, api'.header)

C38_WitnessUnsigned ==
    /\ api.pc = "idle"
    /\ api.endpoint = "ingest"
    /\ api.response = 401
    /\ api.header = NoHeader
    /\ subscriptions[api.subscription_id].secret_key = "k2"

====
